---------------------------- MODULE Spec2Model ----------------------------
(***************************************************************************)
(* Verification model of the rapa25 background-image annotation pipeline.  *)
(*                                                                         *)
(*   AnalyzeSpec : GeminiImageAnalyzer.analyze_image (lib/gemini_analyzer) *)
(*   DbSpec      : DatabaseUploader (lib/db_uploader) used by concurrent   *)
(*                 workers                                                 *)
(*   IdSpec      : get_next_file_id over the tables an earlier run may     *)
(*                 have left, followed by inserts of one worker            *)
(*   QuerySpec   : the read-only duplicate queries over a stored table     *)
(*   BatchSpec   : the batch run (list, filter, download, analyse, upload, *)
(*                 insert, log) with interruption and restart              *)
(*                                                                         *)
(* Strings are modelled as sequences of characters (one-character strings  *)
(* or opaque tokens standing for a fixed piece of text), so that substring *)
(* search, lower-casing, replacement and concatenation are computed.       *)
(***************************************************************************)
EXTENDS Integers, Sequences, FiniteSets, TLC

VARIABLES
    \* ---- analyze_image ----
    pc,            \* position of the analyze_image coroutine
    attempt,       \* loop variable of "for attempt in range(max_retries)"
    response,      \* the local "response" (None until a call returns)
    last_error,    \* the local "last_error"
    log,           \* history: one entry per model call / per sleep
    raised,        \* the exception analyze_image ended with (None if none)
    result,        \* the value analyze_image returned (None if none)
    parsed,        \* TRUE once _parse_response has been entered
    \* ---- database ----
    table,         \* rapa25.raw_image: set of rows
    next_uuid,     \* generator of the "id" column
    wpc,           \* per worker: position
    wid,           \* per worker: value returned by get_next_file_id
    chk,           \* the last check_duplicate_by_path_and_hash call and its result
    wsnap,         \* per worker: how its last get_next_file_id call went
    hist,          \* history of upload_image_result calls
    \* ---- batch run ----
    run,           \* number of the current run (0 = none started yet)
    item,          \* per listed file: stage of the per-item pipeline
    fid,           \* per listed file: the File_info.Id allocated for it
    sent,          \* per run: set of files sent to the model
    skipped,       \* per run: set of files skipped as duplicates
    faulted,       \* per run: set of files one of whose stages failed
    store,         \* object store: set of uploaded objects
    committed0,    \* files with a stored record when the current run started
    reported,      \* per run: the paths check_duplicate_batch returned
    fetched,       \* per run: the files a download was attempted for
    bchk,          \* the last check_duplicate_batch call and its result
    fpc,           \* FTP client: position of download_file (idle, loop, done)
    fattempt,      \* loop variable of "for attempt in range(max_retries)"
    connected,     \* self.connected
    ftp,           \* self.ftp: None or an FTP session object
    disk,          \* local file system: content of each local file path
    fret,          \* the value download_file returned
    flog,          \* history of the current call: reconnects and transfers
    ncalls,        \* number of download_file calls started
    nretr,         \* number of RETR commands issued so far
    fargs,         \* the arguments of the current download_file call
    use_logger,    \* ProgressTracker: self.use_logger
    progress_log,  \* content of progress.jsonl: the chunks written
    error_log,     \* content of error.log: the chunks written
    processed_files,\* self.processed_files
    failed_files,  \* self.failed_files: filename -> error message
    records,       \* self.records: filename -> record
    tret,          \* the last save_* call and how it ended
    tcalls,        \* number of save_* calls made
    tsaved,        \* the save_* calls that returned on the current tracker object
    ptext,         \* response parsing: the response text
    pclient,       \* which client parsed it: none, lib (GeminiImageAnalyzer) or app
    pret,          \* what the parse returned or raised
    image_metadata,\* prompt building: the image_metadata dict
    full_prompt,   \* what build_full_prompt returned
    user_prompt,   \* prompt building: the template (user_prompt)
    ltree,         \* listing: the remote directory tree the server holds
    largs,         \* the arguments of the list_files call
    lpc,           \* position of list_files (idle, run, done)
    lstack,        \* the active _list_files_recursive calls, innermost last
    lret,          \* the list list_files returned
    lcwd,          \* history: the directories entered with cwd, with their depth
    today,         \* log placement: the calendar day (datetime.now())
    log_dir,       \* the day Logger.log_dir is named for
    dated,         \* the entries written: log, day of the timestamp, directory
    s3pc,          \* upload_image: idle, try, sleep, done
    s3attempt,     \* attempt of "for attempt in range(max_retries)"
    s3args,        \* cleanup_after_upload and the suffix of filename
    s3local,       \* the file at local_path exists
    s3log,         \* upload_file calls and time.sleep calls, in order
    s3ret,         \* what upload_image returned or raised
    fsess,         \* FTP sessions: self.ftp is open; sessions replaced while open
    fchk           \* last check_duplicate_by_filename call

avars == <<pc, attempt, response, last_error, log, raised, result, parsed>>
dvars == <<table, next_uuid, wpc, wid, chk, wsnap, hist>>
bvars == <<run, item, fid, sent, skipped, faulted, store, committed0, reported, fetched>>
\* the components added after the database and the batch run
qvars == <<bchk, fchk>>
fvars == <<fpc, fattempt, connected, ftp, disk, fret, flog, ncalls, nretr, fargs>>
tvars == <<use_logger, progress_log, error_log, processed_files, failed_files, records, tret, tcalls, tsaved>>
pvars == <<ptext, pclient, pret, user_prompt, image_metadata, full_prompt>>
lvars == <<ltree, largs, lpc, lstack, lret, lcwd>>
cvars == <<today, log_dir, dated>>
uvars == <<s3pc, s3attempt, s3args, s3local, s3log, s3ret>>
svars == <<fsess>>
xvars == <<qvars, fvars, tvars, pvars, lvars, cvars, uvars, svars>>
vars  == <<avars, dvars, bvars, xvars>>

\* no check_duplicate_by_filename call made yet
NoFilenameCheck ==
    [called |-> FALSE, filename |-> <<>>, raised |-> FALSE, ret |-> FALSE]

(***************************************************************************)
(* String helpers (Python str operations on character sequences)           *)
(***************************************************************************)

\* str.lower() for the characters that occur in the model
LowerChar(c) ==
    CASE c = "I" -> "i"
      [] c = "N" -> "n"
      [] c = "T" -> "t"
      [] c = "E" -> "e"
      [] c = "R" -> "r"
      [] c = "A" -> "a"
      [] c = "L" -> "l"
      [] c = "O" -> "o"
      [] c = "B" -> "b"
      [] c = "C" -> "c"
      [] c = "P" -> "p"
      [] OTHER   -> c

Lower(s) == [i \in 1..Len(s) |-> LowerChar(s[i])]

\* "pat in s"
Contains(s, pat) ==
    \E i \in 0..(Len(s) - Len(pat)) : SubSeq(s, i + 1, i + Len(pat)) = pat

\* s.find(pat): 0-based index of the first occurrence, -1 if none
Find(s, pat) ==
    IF Contains(s, pat)
    THEN CHOOSE i \in 0..(Len(s) - Len(pat)) :
            /\ SubSeq(s, i + 1, i + Len(pat)) = pat
            /\ \A j \in 0..(i - 1) : SubSeq(s, j + 1, j + Len(pat)) # pat
    ELSE -1

\* s.rfind(pat): 0-based index of the last occurrence, -1 if none
RFind(s, pat) ==
    IF Contains(s, pat)
    THEN CHOOSE i \in 0..(Len(s) - Len(pat)) :
            /\ SubSeq(s, i + 1, i + Len(pat)) = pat
            /\ \A j \in (i + 1)..(Len(s) - Len(pat)) :
                  SubSeq(s, j + 1, j + Len(pat)) # pat
    ELSE -1

\* s.replace(pat, rep): every non-overlapping occurrence, left to right
RECURSIVE Replace(_, _, _)
Replace(s, pat, rep) ==
    IF Len(pat) = 0 \/ Find(s, pat) = -1 THEN s
    ELSE SubSeq(s, 1, Find(s, pat)) \o rep
            \o Replace(SubSeq(s, Find(s, pat) + Len(pat) + 1, Len(s)), pat, rep)

\* s[a:b] with 0-based, end-exclusive, non-negative indices
Slice(s, a, b) == SubSeq(s, a + 1, IF b > Len(s) THEN Len(s) ELSE b)

\* str(n) for the small non-negative integers of the model
Digit(n) == CASE n = 0 -> "0" [] n = 1 -> "1" [] n = 2 -> "2" [] n = 3 -> "3"
              [] n = 4 -> "4" [] n = 5 -> "5" [] n = 6 -> "6" [] n = 7 -> "7"
              [] n = 8 -> "8" [] n = 9 -> "9"
RECURSIVE Str(_)
Str(n) == IF n < 10 THEN <<Digit(n)>> ELSE Str(n \div 10) \o <<Digit(n % 10)>>


(***************************************************************************)
(* GeminiImageAnalyzer.analyze_image                                       *)
(***************************************************************************)

max_retries == 3
retry_delay == 5
api_timeout == 120

\* wall-clock durations (seconds) a model call may take
Durations == {30, 121}

NoValue == [kind |-> "None"]

\* messages of the exceptions generate_content may raise
Msg500        == <<"5", "0", "0", " ", "x">>
MsgInternal   == <<"I", "n", "t", "e", "r", "n", "a", "l", " ", "e", "r", "r", "o", "r">>
MsgINTERNAL   == <<"I", "N", "T", "E", "R", "N", "A", "L", " ", "E", "R", "R", "O", "R">>
MsgQuota      == <<"4", "2", "9", " ", "q">>
MsgNear       == <<"5", "0", " ", "0", " ", "i", "n", "t", "e", "r", "n", "a", "l">>
ErrorMessages == {Msg500, MsgInternal, MsgINTERNAL, MsgQuota, MsgNear}

\* finish_reason values of the first candidate (1 = STOP)
FinishReasons == {1, 2, 3, 7}
\* prompt_feedback.block_reason values (0 = attribute carries no reason)
BlockReasons == {0, 2, 9}

\* response texts: "{" "}" braces, "m" "c" "a" the three members
\* ("meta", "category_info", "annotation_info"), "p" prose, "BT" a backtick and
\* "j" "s" "o" "n" the code fence
Fence     == <<"BT", "BT", "BT">>
FenceJson == Fence \o <<"j", "s", "o", "n">>
Texts ==
    { <<"{", "m", "c", "a", "}">>,
      FenceJson \o <<"{", "m", "c", "a", "}">> \o Fence,
      <<"p", "{", "m", "}", "p">>,
      <<"p", "p">>,
      <<"{", "p", "}">> }

Responses ==
    { [kind |-> "response", candidates |-> <<>>, block_reason |-> b, text |-> <<>>] :
        b \in BlockReasons }
    \cup
    { [kind |-> "response", candidates |-> <<[finish_reason |-> f]>>,
       block_reason |-> 0, text |-> t] : f \in FinishReasons, t \in Texts }

\* what one call of model.generate_content does: it takes "duration" seconds
\* and then raises an exception with message "msg" or returns "resp"
Outcomes ==
    { [duration |-> d, raises |-> TRUE, msg |-> m, resp |-> NoValue] :
        d \in Durations, m \in ErrorMessages }
    \cup
    { [duration |-> d, raises |-> FALSE, msg |-> <<>>, resp |-> r] :
        d \in Durations, r \in Responses }

Error(type, msg, at) == [kind |-> "error", type |-> type, msg |-> msg, at |-> at]

\* asyncio.TimeoutError(f"API request timeout ({api_timeout}s exceeded)")
TimeoutMsg == <<"timeout (">> \o Str(api_timeout \div 10) \o Str(api_timeout % 10) \o <<"s)">>

\* outer handler: raise Exception(f"<analysis failed>: {str(e)}")
Wrap(e) == [kind |-> "error", type |-> "Exception",
            msg |-> <<"analysis failed: ">> \o e.msg, at |-> e.at]

\* variant: the lower-cased comparison is missing
is_retryable_case_sensitive(error_msg) ==
    \/ Contains(error_msg, <<"5", "0", "0">>)
    \/ Contains(error_msg,
                <<"I", "n", "t", "e", "r", "n", "a", "l", " ", "e", "r", "r", "o", "r">>)

\* variant: the status code is matched by its first two digits
is_retryable_prefix(error_msg) ==
    \/ Contains(error_msg, <<"5", "0">>)
    \/ Contains(Lower(error_msg),
                <<"i", "n", "t", "e", "r", "n", "a", "l", " ", "e", "r", "r", "o", "r">>)

is_retryable(error_msg) ==
    \/ Contains(error_msg, <<"5", "0", "0">>)
    \/ Contains(Lower(error_msg),
                <<"i", "n", "t", "e", "r", "n", "a", "l", " ", "e", "r", "r", "o", "r">>)
    \/ Contains(error_msg,
                <<"I", "n", "t", "e", "r", "n", "a", "l", " ", "e", "r", "r", "o", "r">>)

finish_reason_map(f) ==
    CASE f = 1 -> <<"STOP">>
      [] f = 2 -> <<"MAX_TOKENS">>
      [] f = 3 -> <<"SAFETY">>
      [] f = 4 -> <<"RECITATION">>
      [] f = 5 -> <<"OTHER">>
      [] f = 8 -> <<"BLOCKLIST">>
      [] OTHER -> <<"UNKNOWN (">> \o Str(f) \o <<")">>

\* the text analyze_image prints for prompt_feedback.block_reason
block_reason_map(b) ==
    CASE b = 1 -> <<"BLOCK_REASON_UNSPECIFIED">>
      [] b = 2 -> <<"SAFETY">>
      [] b = 3 -> <<"OTHER">>
      [] OTHER -> <<"UNKNOWN(">> \o Str(b) \o <<")">>

\* variant: the message gives the mapped text only
FinishMsgTextOnly(f) ==
    <<"finish_reason=">> \o finish_reason_map(f)

FinishMsg(f) ==
    <<"finish_reason=">> \o Str(f) \o <<" (">> \o finish_reason_map(f) \o <<")">>

EmptyMsg == <<"empty response (safety filter or content policy)">>

\* the members an object of a response text can hold; a token stands for
\* one member:  "m"   "meta": {"width": 1920, "height": 1080}
\*              "mt"  "meta": {"start_time": 1.234}   (thousandths: 1234)
\*              "c"   "category_info": {"LocationCategory": 2, "EraCategory": 2}
\*              "cL"  the same with "LocationCategory": 5
\*              "cE"  the same with "EraCategory": 0
\*              "a"   "annotation_info" whose Explanation is the five
\*                    sentences in order
\*              "aR"  the same with the last two sentences of Explanation
\*                    exchanged
Members == {"m", "mt", "c", "cL", "cE", "a", "aR"}

Sentences == [SceneExp |-> <<"S1">>, ColortoneExp |-> <<"S2">>,
              CompositionExp |-> <<"S3">>, ObjectExp1 |-> <<"S4">>,
              ObjectExp2 |-> <<"S5">>]

Annotation(explanation) ==
    [SceneExp |-> Sentences.SceneExp, ColortoneExp |-> Sentences.ColortoneExp,
     CompositionExp |-> Sentences.CompositionExp,
     ObjectExp1 |-> Sentences.ObjectExp1, ObjectExp2 |-> Sentences.ObjectExp2,
     Explanation |-> explanation]

\* key and value of the member a token stands for
JsonMember(tok) ==
    CASE tok = "m"  -> [key |-> "meta", value |-> [width |-> 1920, height |-> 1080]]
      [] tok = "mt" -> [key |-> "meta", value |-> [start_time |-> 1234]]
      [] tok = "c"  -> [key |-> "category_info",
                        value |-> [LocationCategory |-> 2, EraCategory |-> 2]]
      [] tok = "cL" -> [key |-> "category_info",
                        value |-> [LocationCategory |-> 5, EraCategory |-> 2]]
      [] tok = "cE" -> [key |-> "category_info",
                        value |-> [LocationCategory |-> 2, EraCategory |-> 0]]
      [] tok = "a"  -> [key |-> "annotation_info",
                        value |-> Annotation(<<"S1", "S2", "S3", "S4", "S5">>)]
      [] tok = "aR" -> [key |-> "annotation_info",
                        value |-> Annotation(<<"S1", "S2", "S3", "S5", "S4">>)]

\* json.loads accepts the text: an object is "{" members "}"
IsJsonObject(s) ==
    /\ Len(s) >= 2
    /\ s[1] = "{"
    /\ s[Len(s)] = "}"
    /\ \A i \in 2..(Len(s) - 1) : s[i] \in Members

\* json.loads(s) of an accepted text: the dict of its members; of two members
\* with one key the later one wins
JsonLoads(s) ==
    LET idx     == 2..(Len(s) - 1)
        keys    == {JsonMember(s[i]).key : i \in idx}
        Last(k) == CHOOSE i \in idx :
                      /\ JsonMember(s[i]).key = k
                      /\ \A j \in idx : JsonMember(s[j]).key = k => j <= i
    IN  [k \in keys |-> JsonMember(s[Last(k)]).value]

\* d.get(k, default)
DictGet(d, k, default) == IF k \in DOMAIN d THEN d[k] ELSE default

\* round(x, 2) on a value given in thousandths (no tie among the values used)
Round2(x) == ((x + 5) \div 10) * 10

\* variant: a text json.loads rejects gives a result with three empty
\* sections instead of an exception
ParseResponseEmptyOnError(response_text) ==
    LET cleaned_text == Replace(Replace(response_text, FenceJson, <<>>), Fence, <<>>)
        start_idx    == Find(cleaned_text, <<"{">>)
        end_idx      == RFind(cleaned_text, <<"}">>)
        json_string  == Slice(cleaned_text, start_idx, end_idx + 1)
    IN  IF start_idx = -1 \/ end_idx = -1
        THEN Error("ValueError", <<"JSON not found">>, 0)
        ELSE LET analysis_result == IF IsJsonObject(json_string)
                                    THEN JsonLoads(json_string) ELSE <<>>
                 meta == DictGet(analysis_result, "meta", <<>>)
             IN  [kind |-> "result",
                  meta            |-> IF "start_time" \in DOMAIN meta
                                      THEN [meta EXCEPT !["start_time"] = Round2(@)]
                                      ELSE meta,
                  category_info   |-> DictGet(analysis_result, "category_info", <<>>),
                  annotation_info |-> DictGet(analysis_result, "annotation_info", <<>>)]

\* _parse_response: the returned dict, or the exception raised
ParseResponse(response_text) ==
    LET cleaned_text == Replace(Replace(response_text, FenceJson, <<>>), Fence, <<>>)
        start_idx    == Find(cleaned_text, <<"{">>)
        end_idx      == RFind(cleaned_text, <<"}">>)
        json_string  == Slice(cleaned_text, start_idx, end_idx + 1)
    IN  IF start_idx = -1 \/ end_idx = -1
        THEN Error("ValueError", <<"JSON not found">>, 0)
        ELSE IF ~IsJsonObject(json_string)
        THEN Error("ValueError", <<"cannot parse API response">>, 0)
        ELSE LET analysis_result == JsonLoads(json_string)
                 meta == DictGet(analysis_result, "meta", <<>>)
             IN  [kind |-> "result",
                  meta            |-> IF "start_time" \in DOMAIN meta
                                      THEN [meta EXCEPT !["start_time"] = Round2(@)]
                                      ELSE meta,
                  category_info   |-> DictGet(analysis_result, "category_info", <<>>),
                  annotation_info |-> DictGet(analysis_result, "annotation_info", <<>>)]

NumCalls  == Cardinality({i \in 1..Len(log) : log[i].ev = "call"})
NumSleeps == Cardinality({i \in 1..Len(log) : log[i].ev = "sleep"})

Fail(e) ==
    /\ raised' = Wrap(e)
    /\ pc' = "failed"

\* lines 120-153: API key, prompt, base64 encoding of the file
AnalyzeStart(has_key, readable) ==
    /\ pc = "idle"
    /\ IF ~has_key
       THEN Fail(Error("ValueError", <<"no API key">>, 0)) /\ UNCHANGED attempt
       ELSE IF ~readable
       THEN Fail(Error("OSError", <<"cannot open file">>, 0)) /\ UNCHANGED attempt
       ELSE pc' = "loop" /\ attempt' = 0 /\ UNCHANGED raised
    /\ UNCHANGED <<response, last_error, log, result, parsed>>

\* variant: the timeout branch tests "attempt < max_retries"
CallModelSleepAfterLast(out) ==
    /\ pc = "loop"
    /\ log' = Append(log, [ev |-> "call", out |-> out, secs |-> 0])
    /\ LET at == NumCalls + 1 IN
       IF out.duration > api_timeout
       THEN LET e == Error("TimeoutError", TimeoutMsg, at) IN
            /\ last_error' = e
            /\ IF attempt < max_retries
               THEN pc' = "sleep" /\ UNCHANGED raised
               ELSE Fail(e)
            /\ UNCHANGED response
       ELSE IF out.raises
       THEN LET e == Error("Exception", out.msg, at) IN
            /\ last_error' = e
            /\ IF is_retryable(out.msg) /\ attempt < max_retries - 1
               THEN pc' = "sleep" /\ UNCHANGED raised
               ELSE Fail(e)
            /\ UNCHANGED response
       ELSE /\ response' = out.resp
            /\ pc' = "after"
            /\ UNCHANGED <<last_error, raised>>
    /\ UNCHANGED <<attempt, result, parsed>>

\* variant: a response without candidates is retried like a server error
CallModelRetryEmpty(out) ==
    /\ pc = "loop"
    /\ log' = Append(log, [ev |-> "call", out |-> out, secs |-> 0])
    /\ LET at == NumCalls + 1 IN
       IF out.duration > api_timeout
       THEN LET e == Error("TimeoutError", TimeoutMsg, at) IN
            /\ last_error' = e
            /\ IF attempt < max_retries - 1
               THEN pc' = "sleep" /\ UNCHANGED raised
               ELSE Fail(e)
            /\ UNCHANGED response
       ELSE IF out.raises
       THEN LET e == Error("Exception", out.msg, at) IN
            /\ last_error' = e
            /\ IF is_retryable(out.msg) /\ attempt < max_retries - 1
               THEN pc' = "sleep" /\ UNCHANGED raised
               ELSE Fail(e)
            /\ UNCHANGED response
       ELSE IF Len(out.resp.candidates) = 0 /\ attempt < max_retries - 1
       THEN /\ response' = out.resp
            /\ pc' = "sleep"
            /\ UNCHANGED <<last_error, raised>>
       ELSE /\ response' = out.resp
            /\ pc' = "after"
            /\ UNCHANGED <<last_error, raised>>
    /\ UNCHANGED <<attempt, result, parsed>>

\* lines 155-211: one iteration of the retry loop up to the sleep
CallModel(out) ==
    /\ pc = "loop"
    /\ log' = Append(log, [ev |-> "call", out |-> out, secs |-> 0])
    /\ LET at == NumCalls + 1 IN
       IF out.duration > api_timeout
       THEN LET e == Error("TimeoutError", TimeoutMsg, at) IN
            /\ last_error' = e
            /\ IF attempt < max_retries - 1
               THEN pc' = "sleep" /\ UNCHANGED raised
               ELSE Fail(e)
            /\ UNCHANGED response
       ELSE IF out.raises
       THEN LET e == Error("Exception", out.msg, at) IN
            /\ last_error' = e
            /\ IF is_retryable(out.msg) /\ attempt < max_retries - 1
               THEN pc' = "sleep" /\ UNCHANGED raised
               ELSE Fail(e)
            /\ UNCHANGED response
       ELSE /\ response' = out.resp
            /\ pc' = "after"
            /\ UNCHANGED <<last_error, raised>>
    /\ UNCHANGED <<attempt, result, parsed>>

\* lines 189, 206: await asyncio.sleep(retry_delay), then the next iteration
Sleep ==
    /\ pc = "sleep"
    /\ log' = Append(log, [ev |-> "sleep", out |-> NoValue, secs |-> retry_delay])
    /\ attempt' = attempt + 1
    /\ pc' = IF attempt + 1 < max_retries THEN "loop" ELSE "after"
    /\ UNCHANGED <<response, last_error, raised, result, parsed>>

\* lines 213-302: checks on the response, then _parse_response
AfterLoop ==
    /\ pc = "after"
    /\ IF response.kind = "None"
       THEN /\ IF last_error.kind # "None"
               THEN Fail(last_error)
               ELSE Fail(Error("Exception", <<"no response">>, 0))
            /\ UNCHANGED <<result, parsed>>
       ELSE IF Len(response.candidates) = 0
       THEN Fail(Error("Exception", EmptyMsg, 0)) /\ UNCHANGED <<result, parsed>>
       ELSE IF response.candidates[1].finish_reason # 1
       THEN /\ Fail(Error("Exception", FinishMsg(response.candidates[1].finish_reason), 0))
            /\ UNCHANGED <<result, parsed>>
       ELSE LET r == ParseResponse(response.text) IN
            /\ parsed' = TRUE
            /\ IF r.kind = "error"
               THEN Fail(r) /\ UNCHANGED result
               ELSE result' = r /\ pc' = "done" /\ UNCHANGED raised
    /\ UNCHANGED <<attempt, response, last_error, log>>

\* the caller starts another analysis on the same analyzer object
AnalyzeAgain ==
    /\ pc \in {"done", "failed"}
    /\ pc' = "idle"
    /\ attempt' = 0
    /\ response' = NoValue
    /\ last_error' = NoValue
    /\ log' = <<>>
    /\ raised' = NoValue
    /\ result' = NoValue
    /\ parsed' = FALSE

\* state before the first analyze_image call; the other components are idle
AnalyzeInit ==
    /\ pc = "idle"
    /\ attempt = 0
    /\ response = NoValue
    /\ last_error = NoValue
    /\ log = <<>>
    /\ raised = NoValue
    /\ result = NoValue
    /\ parsed = FALSE
    /\ table = {}
    /\ next_uuid = 1
    /\ wpc = <<>>
    /\ wid = <<>>
    /\ chk = <<>>
    /\ wsnap = <<>>
    /\ hist = <<>>
    /\ run = 0
    /\ item = <<>>
    /\ fid = <<>>
    /\ sent = {}
    /\ skipped = {}
    /\ faulted = {}
    /\ store = {}
    /\ committed0 = {}
    /\ reported = {}
    /\ fetched = {}
    /\ bchk = <<>>
    /\ fpc = "idle"
    /\ fattempt = 0
    /\ connected = FALSE
    /\ ftp = "None"
    /\ disk = <<>>
    /\ fret = NoValue
    /\ flog = <<>>
    /\ ncalls = 0
    /\ nretr = 0
    /\ fargs = <<>>
    /\ use_logger = TRUE
    /\ progress_log = <<>>
    /\ error_log = <<>>
    /\ processed_files = {}
    /\ failed_files = <<>>
    /\ records = <<>>
    /\ tret = <<>>
    /\ tcalls = 0
    /\ tsaved = {}
    /\ ptext = <<>>
    /\ pclient = "none"
    /\ pret = NoValue
    /\ image_metadata = NoValue
    /\ full_prompt = NoValue
    /\ user_prompt = <<>>
    /\ ltree = "none"
    /\ largs = <<>>
    /\ lpc = "idle"
    /\ lstack = <<>>
    /\ lret = NoValue
    /\ lcwd = <<>>
    /\ today = 1
    /\ log_dir = 1
    /\ dated = <<>>
    /\ s3pc = "idle"
    /\ s3attempt = 0
    /\ s3args = <<>>
    /\ s3local = FALSE
    /\ s3log = <<>>
    /\ s3ret = NoValue
    /\ fsess = [open |-> FALSE, dropped |-> 0]
    /\ fchk = NoFilenameCheck

AnalyzeNext ==
    \/ \E k \in BOOLEAN, r \in BOOLEAN :
          AnalyzeStart(k, r) /\ UNCHANGED <<dvars, bvars, xvars>>
    \/ \E out \in Outcomes : CallModel(out) /\ UNCHANGED <<dvars, bvars, xvars>>
    \/ Sleep /\ UNCHANGED <<dvars, bvars, xvars>>
    \/ AfterLoop /\ UNCHANGED <<dvars, bvars, xvars>>
    \/ AnalyzeAgain /\ UNCHANGED <<dvars, bvars, xvars>>

AnalyzeSpec == AnalyzeInit /\ [][AnalyzeNext]_vars


(***************************************************************************)
(* DatabaseUploader: table rapa25.raw_image                                *)
(*                                                                         *)
(* A row is [id, s3_key, file_hash, file_path, file_id, gemini]:           *)
(*   id        the generated primary key                                   *)
(*   file_path raw_storage->'original'->>'file_path'                       *)
(*   file_id   raw_meta->'File_info'->>'Id' as a number; -1 stands for a   *)
(*             value the filter  ~ '^[0-9]+$'  rejects (or a missing one)  *)
(***************************************************************************)

\* the rows counted by the two queries of get_next_file_id
NumericRows(T) == {r \in T : r.file_id >= 0}

\* "ORDER BY id": the k-th smallest File_info.Id, duplicates included
KthId(T, k) ==
    LET R == NumericRows(T)
        V == {r.file_id : r \in R}
    IN  CHOOSE v \in V :
            /\ Cardinality({r \in R : r.file_id <= v}) >= k
            /\ Cardinality({r \in R : r.file_id < v}) < k

SetMax(S) == CHOOSE x \in S : \A y \in S : y <= x
SetMin(S) == CHOOSE x \in S : \A y \in S : x <= y

\* variant: MAX(id) + 1 without the gap query
NextFileIdMaxOnly(T) ==
    LET R == NumericRows(T)
    IN  IF R = {} THEN 1 ELSE SetMax({r.file_id : r \in R}) + 1

\* variant: the gap query selects "id - 1" of the first out-of-place row
NextFileIdBelowMismatch(T) ==
    LET R    == NumericRows(T)
        n    == Cardinality(R)
        gaps == {k \in 1..n : KthId(T, k) # k}
    IN  IF gaps # {} THEN KthId(T, SetMin(gaps)) - 1
        ELSE IF R = {} THEN 0 + 1
        ELSE SetMax({r.file_id : r \in R}) + 1

\* get_next_file_id when both queries succeed:
\*   first row_num with id != row_num, else COALESCE(MAX(id), 0) + 1
NextFileId(T) ==
    LET R    == NumericRows(T)
        n    == Cardinality(R)
        gaps == {k \in 1..n : KthId(T, k) # k}
    IN  IF gaps # {} THEN SetMin(gaps)
        ELSE IF R = {} THEN 0 + 1
        ELSE SetMax({r.file_id : r \in R}) + 1

\* ON CONFLICT ((raw_storage->'original'->>'file_path'), file_hash)
Conflicts(T, file_path, file_hash) ==
    \E r \in T : r.file_path = file_path /\ r.file_hash = file_hash

Row(id, s3_key, file_hash, file_path, file_id, gemini) ==
    [id |-> id, s3_key |-> s3_key, file_hash |-> file_hash,
     file_path |-> file_path, file_id |-> file_id, gemini |-> gemini]

\* variant: WHERE ... file_path = :path OR file_hash = :hash
SelectByPathAndHashOr(T, file_path, file_hash) ==
    {r \in T : r.file_path = file_path \/ r.file_hash = file_hash}

\* WHERE raw_storage->'original'->>'file_path' = :path AND file_hash = :hash
SelectByPathAndHash(T, file_path, file_hash) ==
    {r \in T : r.file_path = file_path /\ r.file_hash = file_hash}

\* check_duplicate_by_path_and_hash: dict(row) of the first row, or None
CheckDuplicateByPathAndHashResult(T, file_path, file_hash) ==
    LET rows == SelectByPathAndHash(T, file_path, file_hash)
    IN  IF rows = {} THEN NoValue
        ELSE LET r == CHOOSE x \in rows : TRUE
             IN  [kind |-> "record", id |-> r.id, file_hash |-> r.file_hash,
                  path |-> r.file_path]

Workers == {1, 2}
Hashes  == {"h1", "h2"}
DbPaths == {<<"/", "d", "/", "a">>, <<"/", "d", "/", "b">>}
\* the s3_key (a fresh UUID per work item) and raw_gemini a worker passes
S3KeyOf(w)     == IF w = 1 THEN "k1" ELSE "k2"
RawGeminiOf(w) == IF w = 1 THEN "g1" ELSE "g2"

\* number of upload_image_result calls explored per behaviour
MaxCalls == 2

\* variant: the allocator reserves the ID by storing a placeholder row
GetNextFileIdReserving(w, query_fails) ==
    /\ wpc[w] = "idle"
    /\ Len(hist) < MaxCalls
    /\ wid' = [wid EXCEPT ![w] = IF query_fails THEN 1 ELSE NextFileId(table)]
    /\ wsnap' = [wsnap EXCEPT ![w] = [failed |-> query_fails,
                                      raised |-> FALSE,
                                      calls |-> Len(hist)]]
    /\ wpc' = [wpc EXCEPT ![w] = "got_id"]
    /\ table' = IF query_fails THEN table
                ELSE table \cup {Row(next_uuid, "k0", "h0", <<"-">>,
                                     NextFileId(table), "g0")}
    /\ next_uuid' = IF query_fails THEN next_uuid ELSE next_uuid + 1
    /\ UNCHANGED <<chk, hist>>

\* variant: no handler around the queries, a failure reaches the caller
GetNextFileIdNoHandler(w, query_fails) ==
    /\ wpc[w] = "idle"
    /\ Len(hist) < MaxCalls
    /\ wid' = [wid EXCEPT ![w] = IF query_fails THEN 0 ELSE NextFileId(table)]
    /\ wsnap' = [wsnap EXCEPT ![w] = [failed |-> query_fails,
                                      raised |-> query_fails,
                                      calls |-> Len(hist)]]
    /\ wpc' = [wpc EXCEPT ![w] = "got_id"]
    /\ UNCHANGED <<table, next_uuid, chk, hist>>

\* get_next_file_id; query_fails: the connection or one of its queries raises
\* (the handler returns 1; raised: the call ended with an exception, never).
\* wsnap records how many upload_image_result calls preceded the queries
GetNextFileId(w, query_fails) ==
    /\ wpc[w] = "idle"
    /\ Len(hist) < MaxCalls
    /\ wid' = [wid EXCEPT ![w] = IF query_fails THEN 1 ELSE NextFileId(table)]
    /\ wsnap' = [wsnap EXCEPT ![w] = [failed |-> query_fails,
                                      raised |-> FALSE,
                                      calls |-> Len(hist)]]
    /\ wpc' = [wpc EXCEPT ![w] = "got_id"]
    /\ UNCHANGED <<table, next_uuid, chk, hist>>

\* one upload_image_result call.  conflict: the statement executed and its
\* ON CONFLICT branch fired; raised: the call ended with an exception (never:
\* both handlers of the method return None)
HistEntry(w, s3_key, file_hash, file_path, db_fails, ret) ==
    [s3_key |-> s3_key, file_hash |-> file_hash, file_path |-> file_path,
     file_id |-> wid[w], fallback |-> wsnap[w].failed, db_fails |-> db_fails,
     conflict |-> ~db_fails /\ Conflicts(table, file_path, file_hash),
     raised |-> FALSE,
     ret |-> ret, rows_before |-> Cardinality(table),
     rows_after |-> Cardinality(table')]

\* variant: ON CONFLICT ... DO UPDATE ... RETURNING id (upsert)
UploadImageResultUpsert(w, s3_key, file_hash, file_path, raw_gemini, db_fails) ==
    /\ wpc[w] = "got_id"
    /\ LET conflict == Conflicts(table, file_path, file_hash)
           old      == CHOOSE r \in table :
                          r.file_path = file_path /\ r.file_hash = file_hash
           ret      == IF db_fails THEN 0 ELSE IF conflict THEN old.id ELSE next_uuid
       IN  /\ table' = IF db_fails THEN table
                       ELSE IF conflict
                       THEN (table \ {old}) \cup
                            {Row(old.id, s3_key, file_hash, file_path, wid[w], raw_gemini)}
                       ELSE table \cup {Row(next_uuid, s3_key, file_hash, file_path,
                                            wid[w], raw_gemini)}
           /\ next_uuid' = IF ~db_fails /\ ~conflict THEN next_uuid + 1 ELSE next_uuid
           /\ hist' = Append(hist, HistEntry(w, s3_key, file_hash, file_path,
                                             db_fails, ret))
    /\ wpc' = [wpc EXCEPT ![w] = "idle"]
    /\ UNCHANGED <<wid, wsnap, chk>>

\* upload_image_result with raw_meta.File_info.Id = the ID handed to w;
\* db_fails: the statement or the commit raises (the handler returns None and
\* the transaction stores nothing).  ret 0 stands for None.
UploadImageResult(w, s3_key, file_hash, file_path, raw_gemini, db_fails) ==
    /\ wpc[w] = "got_id"
    /\ LET conflict == Conflicts(table, file_path, file_hash)
           stored   == ~db_fails /\ ~conflict
           ret      == IF stored THEN next_uuid ELSE 0
       IN  /\ table' = IF stored
                       THEN table \cup {Row(next_uuid, s3_key, file_hash, file_path,
                                            wid[w], raw_gemini)}
                       ELSE table
           /\ next_uuid' = IF stored THEN next_uuid + 1 ELSE next_uuid
           /\ hist' = Append(hist, HistEntry(w, s3_key, file_hash, file_path,
                                             db_fails, ret))
    /\ wpc' = [wpc EXCEPT ![w] = "idle"]
    /\ UNCHANGED <<wid, wsnap, chk>>

NoCheck == [file_path |-> <<>>, file_hash |-> "", raised |-> FALSE, ret |-> NoValue]

\* check_duplicate_by_path_and_hash; query_fails: the query raises (the
\* method has no handler, the exception reaches the caller)
CheckDuplicateByPathAndHash(file_path, file_hash, query_fails) ==
    /\ chk' = [file_path |-> file_path, file_hash |-> file_hash,
               raised |-> query_fails,
               ret |-> IF query_fails THEN NoValue
                       ELSE CheckDuplicateByPathAndHashResult(table, file_path, file_hash)]
    /\ UNCHANGED <<table, next_uuid, wpc, wid, wsnap, hist>>

\* no check_duplicate_batch call made yet
NoBatchCheck ==
    [called |-> FALSE, filenames |-> {}, remote_dir |-> <<>>,
     queried |-> FALSE, raised |-> FALSE, ret |-> {}]

DbInit ==
    /\ table = {}
    /\ next_uuid = 1
    /\ wpc = [w \in Workers |-> "idle"]
    /\ wid = [w \in Workers |-> 0]
    /\ chk = NoCheck
    /\ wsnap = [w \in Workers |-> [failed |-> FALSE, raised |-> FALSE, calls |-> 0]]
    /\ hist = <<>>
    /\ pc = "idle"
    /\ attempt = 0
    /\ response = NoValue
    /\ last_error = NoValue
    /\ log = <<>>
    /\ raised = NoValue
    /\ result = NoValue
    /\ parsed = FALSE
    /\ run = 0
    /\ item = <<>>
    /\ fid = <<>>
    /\ sent = {}
    /\ skipped = {}
    /\ faulted = {}
    /\ store = {}
    /\ committed0 = {}
    /\ reported = {}
    /\ fetched = {}
    /\ bchk = NoBatchCheck
    /\ fpc = "idle"
    /\ fattempt = 0
    /\ connected = FALSE
    /\ ftp = "None"
    /\ disk = <<>>
    /\ fret = NoValue
    /\ flog = <<>>
    /\ ncalls = 0
    /\ nretr = 0
    /\ fargs = <<>>
    /\ use_logger = TRUE
    /\ progress_log = <<>>
    /\ error_log = <<>>
    /\ processed_files = {}
    /\ failed_files = <<>>
    /\ records = <<>>
    /\ tret = <<>>
    /\ tcalls = 0
    /\ tsaved = {}
    /\ ptext = <<>>
    /\ pclient = "none"
    /\ pret = NoValue
    /\ image_metadata = NoValue
    /\ full_prompt = NoValue
    /\ user_prompt = <<>>
    /\ ltree = "none"
    /\ largs = <<>>
    /\ lpc = "idle"
    /\ lstack = <<>>
    /\ lret = NoValue
    /\ lcwd = <<>>
    /\ today = 1
    /\ log_dir = 1
    /\ dated = <<>>
    /\ s3pc = "idle"
    /\ s3attempt = 0
    /\ s3args = <<>>
    /\ s3local = FALSE
    /\ s3log = <<>>
    /\ s3ret = NoValue
    /\ fsess = [open |-> FALSE, dropped |-> 0]
    /\ fchk = NoFilenameCheck

DbNext ==
    \/ \E w \in Workers, f \in BOOLEAN :
          GetNextFileId(w, f) /\ UNCHANGED <<avars, bvars, xvars>>
    \/ \E w \in Workers, h \in Hashes, p \in DbPaths, f \in BOOLEAN :
          UploadImageResult(w, S3KeyOf(w), h, p, RawGeminiOf(w), f)
             /\ UNCHANGED <<avars, bvars, xvars>>

DbSpec == DbInit /\ [][DbNext]_vars

(***************************************************************************)
(* get_next_file_id over the tables an earlier run may have left, followed *)
(* by inserts of one worker                                                *)
(***************************************************************************)

\* largest File_info.Id of the initial table
MaxId == 5
\* largest number of initial rows holding the same File_info.Id
MaxDup == 2

\* the j-th row stored before the run with File_info.Id v
\* (v = -1: a value the numeric filter rejects)
OldRow(v, j) ==
    Row(100 + 10 * (v + 1) + j, "k0", "h0",
        <<"/", "o", "/">> \o Str(v + 1) \o Str(j), v, "g0")

\* mult[v] rows hold File_info.Id v
OldRows(mult) ==
    { OldRow(q[1], q[2]) :
        q \in {x \in (-1..MaxId) \X (1..MaxDup) : x[2] <= mult[x[1]]} }

IdInit ==
    /\ \E mult \in [-1..MaxId -> 0..MaxDup] : table = OldRows(mult)
    /\ next_uuid = 1
    /\ wpc = [w \in Workers |-> "idle"]
    /\ wid = [w \in Workers |-> 0]
    /\ chk = NoCheck
    /\ wsnap = [w \in Workers |-> [failed |-> FALSE, raised |-> FALSE, calls |-> 0]]
    /\ hist = <<>>
    /\ pc = "idle"
    /\ attempt = 0
    /\ response = NoValue
    /\ last_error = NoValue
    /\ log = <<>>
    /\ raised = NoValue
    /\ result = NoValue
    /\ parsed = FALSE
    /\ run = 0
    /\ item = <<>>
    /\ fid = <<>>
    /\ sent = {}
    /\ skipped = {}
    /\ faulted = {}
    /\ store = {}
    /\ committed0 = {}
    /\ reported = {}
    /\ fetched = {}
    /\ bchk = NoBatchCheck
    /\ fpc = "idle"
    /\ fattempt = 0
    /\ connected = FALSE
    /\ ftp = "None"
    /\ disk = <<>>
    /\ fret = NoValue
    /\ flog = <<>>
    /\ ncalls = 0
    /\ nretr = 0
    /\ fargs = <<>>
    /\ use_logger = TRUE
    /\ progress_log = <<>>
    /\ error_log = <<>>
    /\ processed_files = {}
    /\ failed_files = <<>>
    /\ records = <<>>
    /\ tret = <<>>
    /\ tcalls = 0
    /\ tsaved = {}
    /\ ptext = <<>>
    /\ pclient = "none"
    /\ pret = NoValue
    /\ image_metadata = NoValue
    /\ full_prompt = NoValue
    /\ user_prompt = <<>>
    /\ ltree = "none"
    /\ largs = <<>>
    /\ lpc = "idle"
    /\ lstack = <<>>
    /\ lret = NoValue
    /\ lcwd = <<>>
    /\ today = 1
    /\ log_dir = 1
    /\ dated = <<>>
    /\ s3pc = "idle"
    /\ s3attempt = 0
    /\ s3args = <<>>
    /\ s3local = FALSE
    /\ s3log = <<>>
    /\ s3ret = NoValue
    /\ fsess = [open |-> FALSE, dropped |-> 0]
    /\ fchk = NoFilenameCheck

IdNext ==
    \/ \E f \in BOOLEAN : GetNextFileId(1, f) /\ UNCHANGED <<avars, bvars, xvars>>
    \/ \E p \in DbPaths, f \in BOOLEAN :
          UploadImageResult(1, S3KeyOf(1), "h1", p, RawGeminiOf(1), f)
             /\ UNCHANGED <<avars, bvars, xvars>>

IdSpec == IdInit /\ [][IdNext]_vars

(***************************************************************************)
(* One worker that allocates an ID and inserts a record with it, again and *)
(* again, on a table whose File_info.Id values are distinct and positive   *)
(***************************************************************************)

\* number of allocate-then-insert steps explored
MaxSteps == 5

\* a path that no stored record has: one per record id
FreshPath(n) == <<"/", "n", "/">> \o Str(n)

\* get_next_file_id, its queries succeeding
SeqGetNextFileId ==
    /\ wpc[1] = "idle"
    /\ Len(hist) < MaxSteps
    /\ wid' = [wid EXCEPT ![1] = NextFileId(table)]
    /\ wsnap' = [wsnap EXCEPT ![1] = [failed |-> FALSE, raised |-> FALSE,
                                      calls |-> Len(hist)]]
    /\ wpc' = [wpc EXCEPT ![1] = "got_id"]
    /\ UNCHANGED <<table, next_uuid, chk, hist>>

\* upload_image_result of a file not stored yet, the statement succeeding
SeqUploadImageResult(file_hash) ==
    /\ wpc[1] = "got_id"
    /\ ~Conflicts(table, FreshPath(next_uuid), file_hash)
    /\ table' = table \cup {Row(next_uuid, S3KeyOf(1), file_hash,
                                FreshPath(next_uuid), wid[1], RawGeminiOf(1))}
    /\ next_uuid' = next_uuid + 1
    /\ hist' = Append(hist, HistEntry(1, S3KeyOf(1), file_hash,
                                      FreshPath(next_uuid), FALSE, next_uuid))
    /\ wpc' = [wpc EXCEPT ![1] = "idle"]
    /\ UNCHANGED <<wid, wsnap, chk>>

GapInit ==
    /\ \E S \in SUBSET (1..MaxId) : table = {OldRow(v, 1) : v \in S}
    /\ next_uuid = 1
    /\ wpc = [w \in Workers |-> "idle"]
    /\ wid = [w \in Workers |-> 0]
    /\ chk = NoCheck
    /\ wsnap = [w \in Workers |-> [failed |-> FALSE, raised |-> FALSE, calls |-> 0]]
    /\ hist = <<>>
    /\ pc = "idle"
    /\ attempt = 0
    /\ response = NoValue
    /\ last_error = NoValue
    /\ log = <<>>
    /\ raised = NoValue
    /\ result = NoValue
    /\ parsed = FALSE
    /\ run = 0
    /\ item = <<>>
    /\ fid = <<>>
    /\ sent = {}
    /\ skipped = {}
    /\ faulted = {}
    /\ store = {}
    /\ committed0 = {}
    /\ reported = {}
    /\ fetched = {}
    /\ bchk = NoBatchCheck
    /\ fpc = "idle"
    /\ fattempt = 0
    /\ connected = FALSE
    /\ ftp = "None"
    /\ disk = <<>>
    /\ fret = NoValue
    /\ flog = <<>>
    /\ ncalls = 0
    /\ nretr = 0
    /\ fargs = <<>>
    /\ use_logger = TRUE
    /\ progress_log = <<>>
    /\ error_log = <<>>
    /\ processed_files = {}
    /\ failed_files = <<>>
    /\ records = <<>>
    /\ tret = <<>>
    /\ tcalls = 0
    /\ tsaved = {}
    /\ ptext = <<>>
    /\ pclient = "none"
    /\ pret = NoValue
    /\ image_metadata = NoValue
    /\ full_prompt = NoValue
    /\ user_prompt = <<>>
    /\ ltree = "none"
    /\ largs = <<>>
    /\ lpc = "idle"
    /\ lstack = <<>>
    /\ lret = NoValue
    /\ lcwd = <<>>
    /\ today = 1
    /\ log_dir = 1
    /\ dated = <<>>
    /\ s3pc = "idle"
    /\ s3attempt = 0
    /\ s3args = <<>>
    /\ s3local = FALSE
    /\ s3log = <<>>
    /\ s3ret = NoValue
    /\ fsess = [open |-> FALSE, dropped |-> 0]
    /\ fchk = NoFilenameCheck

GapNext ==
    \/ SeqGetNextFileId /\ UNCHANGED <<avars, bvars, xvars>>
    \/ \E h \in Hashes : SeqUploadImageResult(h) /\ UNCHANGED <<avars, bvars, xvars>>

GapSpec == GapInit /\ [][GapNext]_vars

(***************************************************************************)
(* check_duplicate_batch                                                   *)
(***************************************************************************)

EndsWith(s, suffix) ==
    /\ Len(s) >= Len(suffix)
    /\ SubSeq(s, Len(s) - Len(suffix) + 1, Len(s)) = suffix

\* the fixed FTP root of the pattern '^.*/FTP/RAPA2025/<dataset>/'
LegacyRoot == <<"/", "F", "/">>

\* regexp_replace(path, '^.*<root>', ''): greedy, up to the last occurrence
StripLegacyRoot(path) ==
    IF Contains(path, LegacyRoot)
    THEN SubSeq(path, RFind(path, LegacyRoot) + Len(LegacyRoot) + 1, Len(path))
    ELSE path

\* check_duplicate_batch(filenames, remote_dir); remote_dir = <<>> stands for
\* the default None (and for the empty string, which the code treats alike)
CheckDuplicateBatch(T, filenames, remote_dir) ==
    IF filenames = {} THEN {}
    ELSE IF remote_dir # <<>>
    THEN LET full_paths == {remote_dir \o <<"/">> \o fn : fn \in filenames}
             existing_full_paths == {r.file_path : r \in {x \in T : x.file_path \in full_paths}}
         IN  {Replace(path, remote_dir \o <<"/">>, <<>>) : path \in existing_full_paths}
    ELSE {StripLegacyRoot(r.file_path) :
             r \in {x \in T : \E fn \in filenames : EndsWith(x.file_path, fn)}}

\* a remote root directory and the relative paths of a listing under it
RemoteDir == <<"/", "d">>

FileA == <<"a">>
FileB == <<"b">>
FileC == <<"s", "/", "d", "/", "c">>
\* the relative paths of the remote listing
Files == {FileA, FileB, FileC}

\* content hash of a remote file (FileA and FileB hold the same bytes)
HashOf(f) == IF f = FileC THEN "h2" ELSE "h1"

\* the path stored in raw_storage.original.file_path
FullPath(f) == RemoteDir \o <<"/">> \o f

(***************************************************************************)
(* Read-only queries over a stored table                                   *)
(***************************************************************************)

\* the stored paths the queries are tried on
QueryPaths == DbPaths \cup {FullPath(f) : f \in Files}

\* stored paths under the fixed FTP root: the file a and, in a subdirectory,
\* the file ba
LegacyPaths == {LegacyRoot \o FileA, LegacyRoot \o <<"x", "/", "b">> \o FileA}

\* one row per (path, hash) pair: the unique index allows no more
StoredRows ==
    { Row(10 * Len(p) + (IF p[Len(p)] = "a" THEN 1 ELSE 2)
                      + (IF h = "h1" THEN 0 ELSE 5),
          "k0", h, p, 1, "g0") : p \in QueryPaths, h \in Hashes }
      \cup { Row(100 + Len(p), "k0", "h1", p, 1, "g0") : p \in LegacyPaths }

\* a call check_duplicate_batch(filenames, remote_dir): an empty list returns
\* before the connection is opened; a failing query raises to the caller
CheckDuplicateBatchCall(filenames, remote_dir, query_fails) ==
    /\ bchk' = [called     |-> TRUE,
                filenames  |-> filenames,
                remote_dir |-> remote_dir,
                queried    |-> filenames # {},
                raised     |-> filenames # {} /\ query_fails,
                ret        |-> IF filenames # {} /\ query_fails THEN {}
                               ELSE CheckDuplicateBatch(table, filenames, remote_dir)]
    /\ UNCHANGED <<table, next_uuid, wpc, wid, chk, wsnap, hist, fchk>>

\* SELECT id ... WHERE file_path LIKE '%' || filename LIMIT 1; fetchone() is
\* not None
CheckDuplicateByFilenameResult(T, filename) ==
    \E r \in T : EndsWith(r.file_path, filename)

\* the file names check_duplicate_by_filename is called with
FilenameArgs == {FileA, FileB, <<"b">> \o FileA}

\* a call check_duplicate_by_filename(filename); a failing query raises to
\* the caller (the method has no handler)
CheckDuplicateByFilename(filename, query_fails) ==
    /\ fchk' = [called   |-> TRUE,
                filename |-> filename,
                raised   |-> query_fails,
                ret      |-> ~query_fails
                               /\ CheckDuplicateByFilenameResult(table, filename)]
    /\ UNCHANGED <<table, next_uuid, wpc, wid, chk, wsnap, hist, bchk>>

\* empty table, both workers idle; the other components are idle
QueryInit ==
    /\ table \in SUBSET StoredRows
    /\ next_uuid = 1
    /\ wpc = [w \in Workers |-> "idle"]
    /\ wid = [w \in Workers |-> 0]
    /\ chk = NoCheck
    /\ wsnap = [w \in Workers |-> [failed |-> FALSE, raised |-> FALSE, calls |-> 0]]
    /\ hist = <<>>
    /\ pc = "idle"
    /\ attempt = 0
    /\ response = NoValue
    /\ last_error = NoValue
    /\ log = <<>>
    /\ raised = NoValue
    /\ result = NoValue
    /\ parsed = FALSE
    /\ run = 0
    /\ item = <<>>
    /\ fid = <<>>
    /\ sent = {}
    /\ skipped = {}
    /\ faulted = {}
    /\ store = {}
    /\ committed0 = {}
    /\ reported = {}
    /\ fetched = {}
    /\ bchk = NoBatchCheck
    /\ fpc = "idle"
    /\ fattempt = 0
    /\ connected = FALSE
    /\ ftp = "None"
    /\ disk = <<>>
    /\ fret = NoValue
    /\ flog = <<>>
    /\ ncalls = 0
    /\ nretr = 0
    /\ fargs = <<>>
    /\ use_logger = TRUE
    /\ progress_log = <<>>
    /\ error_log = <<>>
    /\ processed_files = {}
    /\ failed_files = <<>>
    /\ records = <<>>
    /\ tret = <<>>
    /\ tcalls = 0
    /\ tsaved = {}
    /\ ptext = <<>>
    /\ pclient = "none"
    /\ pret = NoValue
    /\ image_metadata = NoValue
    /\ full_prompt = NoValue
    /\ user_prompt = <<>>
    /\ ltree = "none"
    /\ largs = <<>>
    /\ lpc = "idle"
    /\ lstack = <<>>
    /\ lret = NoValue
    /\ lcwd = <<>>
    /\ today = 1
    /\ log_dir = 1
    /\ dated = <<>>
    /\ s3pc = "idle"
    /\ s3attempt = 0
    /\ s3args = <<>>
    /\ s3local = FALSE
    /\ s3log = <<>>
    /\ s3ret = NoValue
    /\ fsess = [open |-> FALSE, dropped |-> 0]
    /\ fchk = NoFilenameCheck

QueryNext ==
    \/ \E p \in DbPaths, h \in Hashes, f \in BOOLEAN :
          CheckDuplicateByPathAndHash(p, h, f) /\ UNCHANGED <<avars, bvars, xvars>>
    \/ \E fns \in SUBSET Files, dir \in {RemoteDir, <<>>}, f \in BOOLEAN :
          CheckDuplicateBatchCall(fns, dir, f) /\ UNCHANGED <<avars, bvars, fvars, tvars, pvars, lvars, cvars, uvars, svars>>

QuerySpec == QueryInit /\ [][QueryNext]_vars

(***************************************************************************)
(* check_duplicate_by_filename over a stored table                         *)
(***************************************************************************)

\* any stored table, no call made yet; the other components are idle
FilenameInit ==
    /\ table \in SUBSET StoredRows
    /\ next_uuid = 1
    /\ wpc = [w \in Workers |-> "idle"]
    /\ wid = [w \in Workers |-> 0]
    /\ chk = NoCheck
    /\ wsnap = [w \in Workers |-> [failed |-> FALSE, raised |-> FALSE, calls |-> 0]]
    /\ hist = <<>>
    /\ pc = "idle"
    /\ attempt = 0
    /\ response = NoValue
    /\ last_error = NoValue
    /\ log = <<>>
    /\ raised = NoValue
    /\ result = NoValue
    /\ parsed = FALSE
    /\ run = 0
    /\ item = <<>>
    /\ fid = <<>>
    /\ sent = {}
    /\ skipped = {}
    /\ faulted = {}
    /\ store = {}
    /\ committed0 = {}
    /\ reported = {}
    /\ fetched = {}
    /\ bchk = NoBatchCheck
    /\ fpc = "idle"
    /\ fattempt = 0
    /\ connected = FALSE
    /\ ftp = "None"
    /\ disk = <<>>
    /\ fret = NoValue
    /\ flog = <<>>
    /\ ncalls = 0
    /\ nretr = 0
    /\ fargs = <<>>
    /\ use_logger = TRUE
    /\ progress_log = <<>>
    /\ error_log = <<>>
    /\ processed_files = {}
    /\ failed_files = <<>>
    /\ records = <<>>
    /\ tret = <<>>
    /\ tcalls = 0
    /\ tsaved = {}
    /\ ptext = <<>>
    /\ pclient = "none"
    /\ pret = NoValue
    /\ image_metadata = NoValue
    /\ full_prompt = NoValue
    /\ user_prompt = <<>>
    /\ ltree = "none"
    /\ largs = <<>>
    /\ lpc = "idle"
    /\ lstack = <<>>
    /\ lret = NoValue
    /\ lcwd = <<>>
    /\ today = 1
    /\ log_dir = 1
    /\ dated = <<>>
    /\ s3pc = "idle"
    /\ s3attempt = 0
    /\ s3args = <<>>
    /\ s3local = FALSE
    /\ s3log = <<>>
    /\ s3ret = NoValue
    /\ fsess = [open |-> FALSE, dropped |-> 0]
    /\ fchk = NoFilenameCheck

FilenameNext ==
    \E fn \in FilenameArgs, f \in BOOLEAN :
        CheckDuplicateByFilename(fn, f)
            /\ UNCHANGED <<avars, bvars, fvars, tvars, pvars, lvars, cvars, uvars, svars>>

FilenameSpec == FilenameInit /\ [][FilenameNext]_vars

(***************************************************************************)
(* Batch run: list, filter the files already stored, then per file         *)
(* download, hash and duplicate check, model call, object-store upload,    *)
(* ID allocation, insert, outcome log.  The process may be interrupted at  *)
(* any point and started again on the same listing.                        *)
(***************************************************************************)

\* number of items a run processes at the same time
PoolSize == 2
\* number of runs (the first one and the restarts) explored
MaxRuns == 2

InFlight == {f \in Files : item[f] \in {"downloaded", "hashed", "analyzed",
                                        "uploaded", "allocated"}}
Terminal == {"logged_success", "logged_failed", "logged_skipped"}
Committed(T) == {f \in Files : \E r \in T : r.file_path = FullPath(f)
                                            /\ r.file_hash = HashOf(f)}

\* variant: the result of the batch existence check is not used
StartRunDownloadAll ==
    /\ \A f \in Files : item[f] = "none"
    /\ run < MaxRuns
    /\ run' = run + 1
    /\ item' = [f \in Files |-> "queued"]
    /\ skipped' = {}
    /\ fid' = [f \in Files |-> 0]
    /\ sent' = {}
    /\ faulted' = {}
    /\ committed0' = Committed(table)
    /\ reported' = CheckDuplicateBatch(table, Files, RemoteDir)
    /\ fetched' = {}
    /\ UNCHANGED <<store, table, next_uuid>>

\* start of a run: list the remote directory and skip what the batch
\* existence check reports
StartRun ==
    /\ \A f \in Files : item[f] = "none"
    /\ run < MaxRuns
    /\ run' = run + 1
    /\ LET existing == CheckDuplicateBatch(table, Files, RemoteDir)
       IN  /\ item' = [f \in Files |->
                          IF f \in existing THEN "logged_skipped" ELSE "queued"]
           /\ skipped' = Files \cap existing
    /\ fid' = [f \in Files |-> 0]
    /\ sent' = {}
    /\ faulted' = {}
    /\ committed0' = Committed(table)
    /\ reported' = CheckDuplicateBatch(table, Files, RemoteDir)
    /\ fetched' = {}
    /\ UNCHANGED <<store, table, next_uuid>>

\* the process is killed: everything in memory is lost
Interrupt ==
    /\ run >= 1
    /\ run < MaxRuns
    /\ item' = [f \in Files |-> "none"]
    /\ UNCHANGED <<run, fid, sent, skipped, faulted, store, committed0,
                   reported, fetched, table, next_uuid>>

FailItem(f) ==
    /\ item' = [item EXCEPT ![f] = "logged_failed"]
    /\ faulted' = faulted \cup {f}

\* download_file
Download(f, ok) ==
    /\ item[f] = "queued"
    /\ Cardinality(InFlight) < PoolSize
    /\ IF ok
       THEN item' = [item EXCEPT ![f] = "downloaded"] /\ UNCHANGED faulted
       ELSE FailItem(f)
    /\ fetched' = fetched \cup {f}
    /\ UNCHANGED <<run, fid, sent, skipped, store, committed0, reported,
                   table, next_uuid>>

\* hash of the downloaded bytes, then check_duplicate_by_path_and_hash
HashAndCheck(f, query_fails) ==
    /\ item[f] = "downloaded"
    /\ IF query_fails
       THEN FailItem(f) /\ UNCHANGED skipped
       ELSE IF CheckDuplicateByPathAndHashResult(table, FullPath(f), HashOf(f)).kind
                  = "record"
       THEN /\ item' = [item EXCEPT ![f] = "logged_skipped"]
            /\ skipped' = skipped \cup {f}
            /\ UNCHANGED faulted
       ELSE /\ item' = [item EXCEPT ![f] = "hashed"]
            /\ UNCHANGED <<skipped, faulted>>
    /\ UNCHANGED <<run, fid, sent, store, committed0, reported, fetched,
                   table, next_uuid>>

\* analyze_image: the file is sent to the model, the analysis may fail
Analyze(f, ok) ==
    /\ item[f] = "hashed"
    /\ sent' = sent \cup {f}
    /\ IF ok
       THEN item' = [item EXCEPT ![f] = "analyzed"] /\ UNCHANGED faulted
       ELSE FailItem(f)
    /\ UNCHANGED <<run, fid, skipped, store, committed0, reported, fetched,
                   table, next_uuid>>

\* S3Uploader.upload_image
UploadToStore(f, ok) ==
    /\ item[f] = "analyzed"
    /\ IF ok
       THEN /\ item' = [item EXCEPT ![f] = "uploaded"]
            /\ store' = store \cup {[file |-> f, run |-> run]}
            /\ UNCHANGED faulted
       ELSE FailItem(f) /\ UNCHANGED store
    /\ UNCHANGED <<run, fid, sent, skipped, committed0, reported, fetched,
                   table, next_uuid>>

\* get_next_file_id
AllocateId(f, query_fails) ==
    /\ item[f] = "uploaded"
    /\ fid' = [fid EXCEPT ![f] = IF query_fails THEN 1 ELSE NextFileId(table)]
    /\ item' = [item EXCEPT ![f] = "allocated"]
    /\ UNCHANGED <<run, sent, skipped, faulted, store, committed0, reported,
                   fetched, table, next_uuid>>

\* upload_image_result, then the outcome log: a record id is logged as
\* success, None as skipped (the method returns None for a conflict and for
\* a failed statement alike)
Persist(f, db_fails) ==
    /\ item[f] = "allocated"
    /\ LET stored == ~db_fails /\ ~Conflicts(table, FullPath(f), HashOf(f))
       IN  /\ table' = IF stored
                       THEN table \cup {Row(next_uuid, "k", HashOf(f), FullPath(f),
                                            fid[f], "g")}
                       ELSE table
           /\ next_uuid' = IF stored THEN next_uuid + 1 ELSE next_uuid
           /\ item' = [item EXCEPT ![f] =
                          IF stored THEN "logged_success" ELSE "logged_skipped"]
           /\ skipped' = IF stored THEN skipped ELSE skipped \cup {f}
           /\ faulted' = IF db_fails THEN faulted \cup {f} ELSE faulted
    /\ UNCHANGED <<run, fid, sent, store, committed0, reported, fetched>>

\* nothing started, empty table and object store
BatchInit ==
    /\ run = 0
    /\ item = [f \in Files |-> "none"]
    /\ fid = [f \in Files |-> 0]
    /\ sent = {}
    /\ skipped = {}
    /\ faulted = {}
    /\ store = {}
    /\ committed0 = {}
    /\ table = {}
    /\ next_uuid = 1
    /\ wpc = <<>>
    /\ wid = <<>>
    /\ chk = <<>>
    /\ wsnap = <<>>
    /\ hist = <<>>
    /\ pc = "idle"
    /\ attempt = 0
    /\ response = NoValue
    /\ last_error = NoValue
    /\ log = <<>>
    /\ raised = NoValue
    /\ result = NoValue
    /\ parsed = FALSE
    /\ reported = {}
    /\ fetched = {}
    /\ bchk = <<>>
    /\ fpc = "idle"
    /\ fattempt = 0
    /\ connected = FALSE
    /\ ftp = "None"
    /\ disk = <<>>
    /\ fret = NoValue
    /\ flog = <<>>
    /\ ncalls = 0
    /\ nretr = 0
    /\ fargs = <<>>
    /\ use_logger = TRUE
    /\ progress_log = <<>>
    /\ error_log = <<>>
    /\ processed_files = {}
    /\ failed_files = <<>>
    /\ records = <<>>
    /\ tret = <<>>
    /\ tcalls = 0
    /\ tsaved = {}
    /\ ptext = <<>>
    /\ pclient = "none"
    /\ pret = NoValue
    /\ image_metadata = NoValue
    /\ full_prompt = NoValue
    /\ user_prompt = <<>>
    /\ ltree = "none"
    /\ largs = <<>>
    /\ lpc = "idle"
    /\ lstack = <<>>
    /\ lret = NoValue
    /\ lcwd = <<>>
    /\ today = 1
    /\ log_dir = 1
    /\ dated = <<>>
    /\ s3pc = "idle"
    /\ s3attempt = 0
    /\ s3args = <<>>
    /\ s3local = FALSE
    /\ s3log = <<>>
    /\ s3ret = NoValue
    /\ fsess = [open |-> FALSE, dropped |-> 0]
    /\ fchk = NoFilenameCheck

bidle == <<avars, wpc, wid, chk, wsnap, hist, xvars>>

BatchNext ==
    \/ StartRun /\ UNCHANGED bidle
    \/ Interrupt /\ UNCHANGED bidle
    \/ \E f \in Files, ok \in BOOLEAN : Download(f, ok) /\ UNCHANGED bidle
    \/ \E f \in Files, qf \in BOOLEAN : HashAndCheck(f, qf) /\ UNCHANGED bidle
    \/ \E f \in Files, ok \in BOOLEAN : Analyze(f, ok) /\ UNCHANGED bidle
    \/ \E f \in Files, ok \in BOOLEAN : UploadToStore(f, ok) /\ UNCHANGED bidle
    \/ \E f \in Files, qf \in BOOLEAN : AllocateId(f, qf) /\ UNCHANGED bidle
    \/ \E f \in Files, df \in BOOLEAN : Persist(f, df) /\ UNCHANGED bidle

BatchSpec == BatchInit /\ [][BatchNext]_vars

(***************************************************************************)
(* FTPClient: connect, close, reconnect and download_file                  *)
(***************************************************************************)

\* the default of the parameter max_retries of download_file
download_max_retries == 3

\* number of download_file calls explored
MaxDownloads == 1

\* the bytes of the remote file
RemoteBytes == <<"x", "y">>
\* what a local file left by an earlier download holds
OldBytes == <<[n |-> 0, b |-> "o"], [n |-> 0, b |-> "p"], [n |-> 0, b |-> "q"]>>

\* local_path arguments: an existing directory, and a path that is none
LocalDir  == <<"/", "t">>
LocalFile == <<"/", "u">>
\* filename argument: a relative path of the listing, in a subdirectory
DownloadNames == {FileC}

\* os.path.basename
Basename(path) == SubSeq(path, RFind(path, <<"/">>) + 2, Len(path))

\* the local file of a call: os.path.join(local_path, basename) for a
\* directory, local_path itself otherwise
LocalFilePath(filename, local_path) ==
    IF local_path = LocalDir
    THEN local_path \o <<"/">> \o Basename(filename)
    ELSE local_path

LocalPaths == {LocalFilePath(f, lp) : f \in DownloadNames, lp \in {LocalDir, LocalFile}}

\* f"{remote_dir}/{filename}".replace('//', '/')
RemoteFilePath(remote_dir, filename) ==
    Replace(remote_dir \o <<"/">> \o filename, <<"/", "/">>, <<"/">>)

\* messages of the exceptions an attempt may end with
MsgBrokenPipe == <<"B", "r", "o", "k", "e", "n", " ", "p", "i", "p", "e">>
MsgConnReset  == <<"C", "o", "n", "n", "e", "c", "t", "i", "o", "n", " ",
                   "r", "e", "s", "e", "t">>
MsgTimedOut   == <<"t", "i", "m", "e", "d", " ", "o", "u", "t">>
Msg550        == <<"5", "5", "0", " ", "f">>
FtpMessages   == {MsgBrokenPipe, MsgConnReset, MsgTimedOut, Msg550}

\* what the body of one attempt does: "prep" fails before the local file is
\* opened, "retr" fails during the transfer after k bytes were written (here
\* after the first one), "stat" fails after the complete transfer, "ok"
\* reaches the return statement
FtpOutcomes ==
    {[phase |-> "ok", k |-> Len(RemoteBytes), msg |-> <<>>]}
    \cup {[phase |-> "prep", k |-> 0, msg |-> m] : m \in FtpMessages}
    \cup {[phase |-> "retr", k |-> k, msg |-> m] :
             k \in {1}, m \in FtpMessages}
    \cup {[phase |-> "stat", k |-> Len(RemoteBytes), msg |-> m] : m \in FtpMessages}

\* variant: the pattern 'time' instead of 'timeout'
is_connection_error_time(error_msg) ==
    \E err \in {<<"b", "r", "o", "k", "e", "n", " ", "p", "i", "p", "e">>,
                <<"c", "o", "n", "n", "e", "c", "t", "i", "o", "n">>,
                <<"t", "i", "m", "e">>,
                <<"r", "e", "s", "e", "t">>} :
        Contains(Lower(error_msg), err)

\* any(err in error_msg.lower() for err in [...])
is_connection_error(error_msg) ==
    \E err \in {<<"b", "r", "o", "k", "e", "n", " ", "p", "i", "p", "e">>,
                <<"c", "o", "n", "n", "e", "c", "t", "i", "o", "n">>,
                <<"t", "i", "m", "e", "o", "u", "t">>,
                <<"r", "e", "s", "e", "t">>} :
        Contains(Lower(error_msg), err)

\* variant: the handler leaves self.connected as it is
ConnectedAfterErrorKept(is_conn, c) == c

\* self.connected after the handler has classified the error
ConnectedAfterError(is_conn, c) == IF is_conn THEN FALSE ELSE c

\* variant: open(local_file_path, 'ab')
OpenAppend(content) == content

\* open(local_file_path, 'wb'): the file is created or truncated
OpenWrite(content) == <<>>

NoArgs == [remote_dir |-> <<>>, filename |-> <<>>, local_path |-> <<>>]

\* an entry of the history of a call
\* (ev: reconnect, retr or error; where: top, body or handler for a
\* reconnect or a transfer, the phase for an error; ok: the reconnect succeeded,
\* the transfer completed; connected: self.connected after a reconnect, when
\* RETR is sent, after the handler classified an error; n, path: number and
\* remote path of a RETR)
Event(ev, where, ok, msg, conn, n, path) ==
    [ev |-> ev, at |-> fattempt, where |-> where, ok |-> ok, msg |-> msg,
     connected |-> conn, n |-> n, path |-> path]

\* connect(): a new FTP object replaces self.ftp; ok: connect and login succeed
Connect(ok) ==
    /\ fpc # "loop"
    /\ ftp' = "FTP"
    /\ connected' = ok
    /\ UNCHANGED <<fpc, fattempt, disk, fret, flog, ncalls, nretr, fargs>>

\* close(): quits the session only when self.ftp is set and connected
Close ==
    /\ fpc # "loop"
    /\ connected' = IF ftp # "None" /\ connected THEN FALSE ELSE connected
    /\ UNCHANGED <<fpc, fattempt, ftp, disk, fret, flog, ncalls, nretr, fargs>>

\* download_file(remote_dir, filename, local_path) is called
DownloadStart(filename, local_path) ==
    /\ fpc # "loop"
    /\ ncalls < MaxDownloads
    /\ ncalls' = ncalls + 1
    /\ fargs' = [remote_dir |-> RemoteDir, filename |-> filename,
                 local_path |-> local_path]
    /\ fpc' = "loop"
    /\ fattempt' = 0
    /\ fret' = NoValue
    /\ flog' = <<>>
    /\ UNCHANGED <<connected, ftp, disk, nretr>>

\* one iteration of "for attempt in range(max_retries)".
\* rc1: result of the reconnect at the top (made when not connected);
\* out: what the body does; rc2: result of the reconnect in the handler
\* (made after a connection-class error that is not in the last attempt)
DownloadIteration(rc1, out, rc2) ==
    /\ fpc = "loop"
    /\ LET top        == ~connected
           skip       == top /\ ~rc1
           conn1      == IF top THEN rc1 ELSE connected
           local_file == LocalFilePath(fargs.filename, fargs.local_path)
           remote     == RemoteFilePath(fargs.remote_dir, fargs.filename)
           opened     == ~skip /\ out.phase # "prep"
           failed     == ~skip /\ out.phase # "ok"
           is_conn    == failed /\ is_connection_error(out.msg)
           last       == fattempt = download_max_retries - 1
           again      == is_conn /\ ~last
           marked     == ConnectedAfterError(is_conn, conn1)
           conn2      == IF again THEN rc2 ELSE IF failed THEN marked ELSE conn1
           returns    == ~skip /\ ~failed
           ends       == returns \/ (failed /\ ~again) \/ last
           written    == [i \in 1..out.k |-> [n |-> nretr + 1, b |-> RemoteBytes[i]]]
           ev_top     == IF top THEN <<Event("reconnect", "top", rc1, <<>>, rc1, 0, <<>>)>>
                         ELSE <<>>
           ev_retr    == IF opened
                         THEN <<Event("retr", "body", out.phase \in {"ok", "stat"},
                                      <<>>, conn1, nretr + 1, remote)>>
                         ELSE <<>>
           ev_err     == IF failed
                         THEN <<Event("error", out.phase, FALSE, out.msg, marked, 0, <<>>)>>
                         ELSE <<>>
           ev_again   == IF again
                         THEN <<Event("reconnect", "handler", rc2, <<>>, rc2, 0, <<>>)>>
                         ELSE <<>>
       IN  /\ connected' = conn2
           /\ ftp' = IF top \/ again THEN "FTP" ELSE ftp
           /\ disk' = IF opened
                      THEN [disk EXCEPT ![local_file] = OpenWrite(@) \o written]
                      ELSE disk
           /\ nretr' = IF opened THEN nretr + 1 ELSE nretr
           /\ flog' = flog \o ev_top \o ev_retr \o ev_err \o ev_again
           /\ fret' = IF returns THEN [kind |-> "path", path |-> local_file]
                      ELSE NoValue
           /\ fpc' = IF ends THEN "done" ELSE "loop"
           /\ fattempt' = IF ends THEN fattempt ELSE fattempt + 1
    /\ UNCHANGED <<ncalls, fargs>>

FtpInit ==
    /\ table = {}
    /\ next_uuid = 1
    /\ wpc = [w \in Workers |-> "idle"]
    /\ wid = [w \in Workers |-> 0]
    /\ chk = NoCheck
    /\ wsnap = [w \in Workers |-> [failed |-> FALSE, raised |-> FALSE, calls |-> 0]]
    /\ hist = <<>>
    /\ pc = "idle"
    /\ attempt = 0
    /\ response = NoValue
    /\ last_error = NoValue
    /\ log = <<>>
    /\ raised = NoValue
    /\ result = NoValue
    /\ parsed = FALSE
    /\ run = 0
    /\ item = <<>>
    /\ fid = <<>>
    /\ sent = {}
    /\ skipped = {}
    /\ faulted = {}
    /\ store = {}
    /\ committed0 = {}
    /\ reported = {}
    /\ fetched = {}
    /\ bchk = NoBatchCheck
    /\ fpc = "idle"
    /\ fattempt = 0
    /\ connected = FALSE
    /\ ftp = "None"
    /\ \E old \in {<<>>, OldBytes} : disk = [p \in LocalPaths |-> old]
    /\ fret = NoValue
    /\ flog = <<>>
    /\ ncalls = 0
    /\ nretr = 0
    /\ fargs = NoArgs
    /\ use_logger = TRUE
    /\ progress_log = <<>>
    /\ error_log = <<>>
    /\ processed_files = {}
    /\ failed_files = <<>>
    /\ records = <<>>
    /\ tret = <<>>
    /\ tcalls = 0
    /\ tsaved = {}
    /\ ptext = <<>>
    /\ pclient = "none"
    /\ pret = NoValue
    /\ image_metadata = NoValue
    /\ full_prompt = NoValue
    /\ user_prompt = <<>>
    /\ ltree = "none"
    /\ largs = <<>>
    /\ lpc = "idle"
    /\ lstack = <<>>
    /\ lret = NoValue
    /\ lcwd = <<>>
    /\ today = 1
    /\ log_dir = 1
    /\ dated = <<>>
    /\ s3pc = "idle"
    /\ s3attempt = 0
    /\ s3args = <<>>
    /\ s3local = FALSE
    /\ s3log = <<>>
    /\ s3ret = NoValue
    /\ fsess = [open |-> FALSE, dropped |-> 0]
    /\ fchk = NoFilenameCheck

fidle == <<avars, dvars, bvars, qvars, tvars, pvars, lvars, cvars, uvars, svars>>

FtpNext ==
    \/ \E ok \in BOOLEAN : Connect(ok) /\ UNCHANGED fidle
    \/ Close /\ UNCHANGED fidle
    \/ \E f \in DownloadNames, lp \in {LocalDir, LocalFile} :
          DownloadStart(f, lp) /\ UNCHANGED fidle
    \/ \E rc1 \in BOOLEAN, out \in FtpOutcomes, rc2 \in BOOLEAN :
          DownloadIteration(rc1, out, rc2) /\ UNCHANGED fidle

FtpSpec == FtpInit /\ [][FtpNext]_vars

(***************************************************************************)
(* FTPClient used through connect / download_file / close: the session     *)
(* objects (ftplib.FTP) the client has opened                              *)
(***************************************************************************)

\* connect(): self.ftp = FTP() replaces the object held so far, which stays
\* open when nobody closed it; the new one is open when connect/login worked
ConnectSession(s, ok) ==
    [open |-> ok, dropped |-> s.dropped + (IF s.open THEN 1 ELSE 0)]

\* close(): quit() or close() on self.ftp, only when self.ftp is set and
\* self.connected is true (c)
CloseSession(s, has_ftp, c) ==
    IF has_ftp /\ c THEN [s EXCEPT !.open = FALSE] ELSE s

\* reconnect(): self.close(), then self.connect()
ReconnectSession(s, has_ftp, c, ok) ==
    ConnectSession(CloseSession(s, has_ftp, c), ok)

\* the reconnects of a download_file iteration, in order; both are made
\* with self.connected false (at the top: "if not self.connected"; in the
\* handler: after "self.connected = False")
RECURSIVE ReconnectSessions(_, _, _)
ReconnectSessions(s, has_ftp, events) ==
    IF events = <<>> THEN s
    ELSE ReconnectSessions(
            IF Head(events).ev = "reconnect"
            THEN ReconnectSession(s, has_ftp, FALSE, Head(events).ok) ELSE s,
            has_ftp \/ Head(events).ev = "reconnect",
            Tail(events))

\* the number of session objects opened and not closed
Unclosed == fsess.dropped + (IF fsess.open THEN 1 ELSE 0)

SessionInit ==
    /\ table = {}
    /\ next_uuid = 1
    /\ wpc = [w \in Workers |-> "idle"]
    /\ wid = [w \in Workers |-> 0]
    /\ chk = NoCheck
    /\ wsnap = [w \in Workers |-> [failed |-> FALSE, raised |-> FALSE, calls |-> 0]]
    /\ hist = <<>>
    /\ pc = "idle"
    /\ attempt = 0
    /\ response = NoValue
    /\ last_error = NoValue
    /\ log = <<>>
    /\ raised = NoValue
    /\ result = NoValue
    /\ parsed = FALSE
    /\ run = 0
    /\ item = <<>>
    /\ fid = <<>>
    /\ sent = {}
    /\ skipped = {}
    /\ faulted = {}
    /\ store = {}
    /\ committed0 = {}
    /\ reported = {}
    /\ fetched = {}
    /\ bchk = NoBatchCheck
    /\ fpc = "idle"
    /\ fattempt = 0
    /\ connected = FALSE
    /\ ftp = "None"
    /\ \E old \in {<<>>, OldBytes} : disk = [p \in LocalPaths |-> old]
    /\ fret = NoValue
    /\ flog = <<>>
    /\ ncalls = 0
    /\ nretr = 0
    /\ fargs = NoArgs
    /\ use_logger = TRUE
    /\ progress_log = <<>>
    /\ error_log = <<>>
    /\ processed_files = {}
    /\ failed_files = <<>>
    /\ records = <<>>
    /\ tret = <<>>
    /\ tcalls = 0
    /\ tsaved = {}
    /\ ptext = <<>>
    /\ pclient = "none"
    /\ pret = NoValue
    /\ image_metadata = NoValue
    /\ full_prompt = NoValue
    /\ user_prompt = <<>>
    /\ ltree = "none"
    /\ largs = <<>>
    /\ lpc = "idle"
    /\ lstack = <<>>
    /\ lret = NoValue
    /\ lcwd = <<>>
    /\ today = 1
    /\ log_dir = 1
    /\ dated = <<>>
    /\ s3pc = "idle"
    /\ s3attempt = 0
    /\ s3args = <<>>
    /\ s3local = FALSE
    /\ s3log = <<>>
    /\ s3ret = NoValue
    /\ fsess = [open |-> FALSE, dropped |-> 0]
    /\ fchk = NoFilenameCheck

sidle == <<avars, dvars, bvars, qvars, tvars, pvars, lvars, cvars, uvars>>

\* the caller connects once (or again after a connect that failed or a
\* close), downloads, and closes
SessionNext ==
    \/ \E ok \in BOOLEAN :
          /\ ~fsess.open
          /\ Connect(ok)
          /\ fsess' = ConnectSession(fsess, ok)
          /\ UNCHANGED sidle
    \/ /\ Close
       /\ fsess' = CloseSession(fsess, ftp # "None", connected)
       /\ UNCHANGED sidle
    \/ \E f \in DownloadNames, lp \in {LocalDir, LocalFile} :
          DownloadStart(f, lp) /\ UNCHANGED <<sidle, fsess>>
    \/ \E rc1 \in BOOLEAN, out \in FtpOutcomes, rc2 \in BOOLEAN :
          /\ DownloadIteration(rc1, out, rc2)
          /\ fsess' = ReconnectSessions(fsess, ftp # "None",
                                        SubSeq(flog', Len(flog) + 1, Len(flog')))
          /\ UNCHANGED sidle

SessionSpec == SessionInit /\ [][SessionNext]_vars

(***************************************************************************)
(* ProgressTracker and Logger: save_success, save_failed, save_skipped     *)
(***************************************************************************)

\* number of save_* calls explored
MaxRecords == 3

\* the filename arguments
TrackedFiles == {FileA, FileB}

\* what a write to a log file does: "ok" writes the text, "fail" raises
\* before anything is written (open or write fails), "partial" raises after
\* a part of the text was written
WriteOutcomes == {"ok", "fail", "partial"}

\* one line of progress.jsonl (json.dumps(record) + newline)
Line(filename, status, detail) ==
    [filename |-> filename, status |-> status, detail |-> detail,
     complete |-> TRUE]

\* one entry of error.log
ErrorEntry(filename, error) ==
    [filename |-> filename, status |-> "ERROR", detail |-> error,
     complete |-> TRUE]

\* a line an earlier run of the same day left in progress.jsonl
OldLine == Line(FileA, "success", "r0")

\* variant: open(path, 'w')
OverwriteWith(content, text) == <<text>>

\* with open(path, 'a'): f.write(text); f.flush()
AppendTo(content, text) == Append(content, text)

\* log_progress / log_error / _append_record: the file content afterwards and
\* whether the method raised.  serialisable: json.dumps accepts the metadata
WriteResult(content, text, serialisable, w) ==
    IF ~serialisable \/ w = "fail"
    THEN [content |-> content, raised |-> TRUE]
    ELSE IF w = "partial"
    THEN [content |-> AppendTo(content, [text EXCEPT !.complete = FALSE]),
          raised |-> TRUE]
    ELSE [content |-> AppendTo(content, text), raised |-> FALSE]

NoCall == [op |-> "none", filename |-> <<>>, raised |-> FALSE]

\* dict operations: d[k] = v and "if k in d: del d[k]"
DictSet(d, k, v) == [x \in DOMAIN d \cup {k} |-> IF x = k THEN v ELSE d[x]]
DictDel(d, k) == [x \in DOMAIN d \ {k} |-> d[x]]

\* save_success(filename, record_id, s3_key, **kwargs)
SaveSuccess(filename, serialisable, w) ==
    /\ tcalls < MaxRecords
    /\ tcalls' = tcalls + 1
    /\ LET r == WriteResult(progress_log, Line(filename, "success", "r1"),
                            serialisable, w)
       IN  /\ progress_log' = r.content
           /\ tret' = [op |-> "save_success", filename |-> filename,
                       raised |-> r.raised]
           /\ tsaved' = IF tret'.raised THEN tsaved ELSE tsaved \cup {tret'}
           /\ IF r.raised
              THEN UNCHANGED <<processed_files, records, failed_files>>
              ELSE /\ processed_files' = processed_files \cup {filename}
                   /\ records' = DictSet(records, filename,
                                         [status |-> "success", record_id |-> "r1"])
                   /\ failed_files' = DictDel(failed_files, filename)
    /\ UNCHANGED <<use_logger, error_log>>

\* variant: save_failed without "self.processed_files.remove(filename)"
SaveFailedKeepsProcessed(filename, serialisable, w, w2) ==
    /\ tcalls < MaxRecords
    /\ tcalls' = tcalls + 1
    /\ LET r  == WriteResult(progress_log, Line(filename, "failed", "e1"),
                             serialisable, w)
           r2 == IF use_logger /\ ~r.raised
                 THEN WriteResult(error_log, ErrorEntry(filename, "e1"),
                                  serialisable, w2)
                 ELSE [content |-> error_log, raised |-> FALSE]
           exc == r.raised \/ r2.raised
       IN  /\ progress_log' = r.content
           /\ error_log' = r2.content
           /\ tret' = [op |-> "save_failed", filename |-> filename, raised |-> exc]
           /\ tsaved' = IF tret'.raised THEN tsaved ELSE tsaved \cup {tret'}
           /\ IF exc
              THEN UNCHANGED <<processed_files, failed_files>>
              ELSE /\ failed_files' = DictSet(failed_files, filename, "e1")
                   /\ processed_files' = processed_files
    /\ UNCHANGED <<use_logger, records>>

\* save_failed(filename, error, **kwargs): with the Logger, log_progress and
\* then log_error; without it, _append_record
SaveFailed(filename, serialisable, w, w2) ==
    /\ tcalls < MaxRecords
    /\ tcalls' = tcalls + 1
    /\ LET r  == WriteResult(progress_log, Line(filename, "failed", "e1"),
                             serialisable, w)
           r2 == IF use_logger /\ ~r.raised
                 THEN WriteResult(error_log, ErrorEntry(filename, "e1"),
                                  serialisable, w2)
                 ELSE [content |-> error_log, raised |-> FALSE]
           exc == r.raised \/ r2.raised
       IN  /\ progress_log' = r.content
           /\ error_log' = r2.content
           /\ tret' = [op |-> "save_failed", filename |-> filename, raised |-> exc]
           /\ tsaved' = IF tret'.raised THEN tsaved ELSE tsaved \cup {tret'}
           /\ IF exc
              THEN UNCHANGED <<processed_files, failed_files>>
              ELSE /\ failed_files' = DictSet(failed_files, filename, "e1")
                   /\ processed_files' = processed_files \ {filename}
    /\ UNCHANGED <<use_logger, records>>

\* variant: a skipped file is put into processed_files
SaveSkippedMarksProcessed(filename, serialisable, w) ==
    /\ tcalls < MaxRecords
    /\ tcalls' = tcalls + 1
    /\ LET r == WriteResult(progress_log, Line(filename, "skipped", "duplicate"),
                            serialisable, w)
       IN  /\ progress_log' = r.content
           /\ tret' = [op |-> "save_skipped", filename |-> filename,
                       raised |-> r.raised]
           /\ tsaved' = IF tret'.raised THEN tsaved ELSE tsaved \cup {tret'}
    /\ processed_files' = IF tret'.raised THEN processed_files
                        ELSE processed_files \cup {filename}
    /\ UNCHANGED <<use_logger, error_log, failed_files, records>>

\* save_skipped(filename, reason, **kwargs)
SaveSkipped(filename, serialisable, w) ==
    /\ tcalls < MaxRecords
    /\ tcalls' = tcalls + 1
    /\ LET r == WriteResult(progress_log, Line(filename, "skipped", "duplicate"),
                            serialisable, w)
       IN  /\ progress_log' = r.content
           /\ tret' = [op |-> "save_skipped", filename |-> filename,
                       raised |-> r.raised]
           /\ tsaved' = IF tret'.raised THEN tsaved ELSE tsaved \cup {tret'}
    /\ UNCHANGED <<use_logger, error_log, processed_files, failed_files, records>>

\* the filenames of the complete lines of the log with the given status
Logged(content, status) ==
    {content[i].filename : i \in {j \in 1..Len(content) :
                                     /\ content[j].complete
                                     /\ content[j].status = status}}

\* variant: __init__ calls a _load_progress that replays the log file
NewTrackerLoading ==
    /\ processed_files' = Logged(progress_log, "success") \ Logged(progress_log, "failed")
    /\ failed_files' = [f \in Logged(progress_log, "failed") |-> "e1"]
    /\ records' = [f \in Logged(progress_log, "success") |->
                      [status |-> "success", record_id |-> "r1"]]
    /\ tret' = [op |-> "__init__", filename |-> <<>>, raised |-> FALSE]
    /\ tsaved' = {}
    /\ UNCHANGED <<use_logger, progress_log, error_log, tcalls>>

\* ProgressTracker.__init__ of the next run of the program (same use_logger,
\* hence the same log file): the three caches start empty, the log file is
\* neither read nor touched; _load_progress is an empty method nobody calls
NewTracker ==
    /\ processed_files' = {}
    /\ failed_files' = <<>>
    /\ records' = <<>>
    /\ tret' = [op |-> "__init__", filename |-> <<>>, raised |-> FALSE]
    /\ tsaved' = {}
    /\ UNCHANGED <<use_logger, progress_log, error_log, tcalls>>

\* is_processed(filename), is_failed(filename)
is_processed(filename) == filename \in processed_files
is_failed(filename) == filename \in DOMAIN failed_files

\* get_remaining_files(all_files): [f for f in all_files if not is_processed(f)]
RECURSIVE get_remaining_files(_)
get_remaining_files(all_files) ==
    IF all_files = <<>> THEN <<>>
    ELSE (IF is_processed(Head(all_files)) THEN <<>> ELSE <<Head(all_files)>>)
             \o get_remaining_files(Tail(all_files))

\* get_stats()
get_stats ==
    [success |-> Cardinality(processed_files),
     failed |-> Cardinality(DOMAIN failed_files)]

TrackerInit ==
    /\ table = {}
    /\ next_uuid = 1
    /\ wpc = [w \in Workers |-> "idle"]
    /\ wid = [w \in Workers |-> 0]
    /\ chk = NoCheck
    /\ wsnap = [w \in Workers |-> [failed |-> FALSE, raised |-> FALSE, calls |-> 0]]
    /\ hist = <<>>
    /\ pc = "idle"
    /\ attempt = 0
    /\ response = NoValue
    /\ last_error = NoValue
    /\ log = <<>>
    /\ raised = NoValue
    /\ result = NoValue
    /\ parsed = FALSE
    /\ run = 0
    /\ item = <<>>
    /\ fid = <<>>
    /\ sent = {}
    /\ skipped = {}
    /\ faulted = {}
    /\ store = {}
    /\ committed0 = {}
    /\ reported = {}
    /\ fetched = {}
    /\ bchk = NoBatchCheck
    /\ fpc = "idle"
    /\ fattempt = 0
    /\ connected = FALSE
    /\ ftp = "None"
    /\ disk = <<>>
    /\ fret = NoValue
    /\ flog = <<>>
    /\ ncalls = 0
    /\ nretr = 0
    /\ fargs = <<>>
    /\ use_logger \in BOOLEAN
    /\ progress_log \in {<<>>, <<OldLine>>}
    /\ error_log = <<>>
    /\ processed_files = {}
    /\ failed_files = <<>>
    /\ records = <<>>
    /\ tret = NoCall
    /\ tcalls = 0
    /\ tsaved = {}
    /\ ptext = <<>>
    /\ pclient = "none"
    /\ pret = NoValue
    /\ image_metadata = NoValue
    /\ full_prompt = NoValue
    /\ user_prompt = <<>>
    /\ ltree = "none"
    /\ largs = <<>>
    /\ lpc = "idle"
    /\ lstack = <<>>
    /\ lret = NoValue
    /\ lcwd = <<>>
    /\ today = 1
    /\ log_dir = 1
    /\ dated = <<>>
    /\ s3pc = "idle"
    /\ s3attempt = 0
    /\ s3args = <<>>
    /\ s3local = FALSE
    /\ s3log = <<>>
    /\ s3ret = NoValue
    /\ fsess = [open |-> FALSE, dropped |-> 0]
    /\ fchk = NoFilenameCheck

tidle == <<avars, dvars, bvars, qvars, fvars, pvars, lvars, cvars, uvars, svars>>

TrackerNext ==
    \/ \E f \in TrackedFiles, js \in BOOLEAN, w \in WriteOutcomes :
          SaveSuccess(f, js, w) /\ UNCHANGED tidle
    \/ \E f \in TrackedFiles, js \in BOOLEAN, w \in WriteOutcomes,
          w2 \in WriteOutcomes :
          SaveFailed(f, js, w, w2) /\ UNCHANGED tidle
    \/ \E f \in TrackedFiles, js \in BOOLEAN, w \in WriteOutcomes :
          SaveSkipped(f, js, w) /\ UNCHANGED tidle
    \/ NewTracker /\ UNCHANGED tidle

TrackerSpec == TrackerInit /\ [][TrackerNext]_vars

(***************************************************************************)
(* Response parsing on its own: _parse_response of GeminiImageAnalyzer and *)
(* json.loads(response.text) of analyze_image_async, over response texts   *)
(***************************************************************************)

\* number of members between the braces of a response text
MaxMembers == 3

\* sequences over S of length at most n
SeqsUpTo(S, n) == UNION {[1..k -> S] : k \in 0..n}

\* response texts: prose, a fence or a stray brace in front, an opening
\* brace or none, members and prose, a closing brace or none, and prose, a
\* fence or a stray brace behind
ParseTexts ==
    { pre \o open \o body \o close \o post :
        pre   \in {<<>>, <<"p">>, FenceJson, <<"}">>},
        open  \in {<<>>, <<"{">>},
        body  \in SeqsUpTo(Members \cup {"p"}, MaxMembers),
        close \in {<<>>, <<"}">>},
        post  \in {<<>>, <<"p">>, Fence, <<"{">>} }

\* result = self._parse_response(response.text, image_metadata)
ParseCall ==
    /\ pclient = "none"
    /\ pclient' = "lib"
    /\ pret' = ParseResponse(ptext)
    /\ UNCHANGED <<ptext, user_prompt, image_metadata, full_prompt>>

\* analyze_image_async: result = json.loads(response.text); return result.
\* The returned dict is shown by its three sections (an absent one as the
\* empty dict) and its key set
AppParseCall ==
    /\ pclient = "none"
    /\ pclient' = "app"
    /\ pret' = IF IsJsonObject(ptext)
               THEN LET d == JsonLoads(ptext)
                    IN  [kind |-> "result",
                         meta            |-> DictGet(d, "meta", <<>>),
                         category_info   |-> DictGet(d, "category_info", <<>>),
                         annotation_info |-> DictGet(d, "annotation_info", <<>>),
                         keys            |-> DOMAIN d]
               ELSE Error("JSONDecodeError", <<"invalid JSON">>, 0)
    /\ UNCHANGED <<ptext, user_prompt, image_metadata, full_prompt>>

ParseInit ==
    /\ table = {}
    /\ next_uuid = 1
    /\ wpc = [w \in Workers |-> "idle"]
    /\ wid = [w \in Workers |-> 0]
    /\ chk = NoCheck
    /\ wsnap = [w \in Workers |-> [failed |-> FALSE, raised |-> FALSE, calls |-> 0]]
    /\ hist = <<>>
    /\ pc = "idle"
    /\ attempt = 0
    /\ response = NoValue
    /\ last_error = NoValue
    /\ log = <<>>
    /\ raised = NoValue
    /\ result = NoValue
    /\ parsed = FALSE
    /\ run = 0
    /\ item = <<>>
    /\ fid = <<>>
    /\ sent = {}
    /\ skipped = {}
    /\ faulted = {}
    /\ store = {}
    /\ committed0 = {}
    /\ reported = {}
    /\ fetched = {}
    /\ bchk = NoBatchCheck
    /\ fpc = "idle"
    /\ fattempt = 0
    /\ connected = FALSE
    /\ ftp = "None"
    /\ disk = <<>>
    /\ fret = NoValue
    /\ flog = <<>>
    /\ ncalls = 0
    /\ nretr = 0
    /\ fargs = <<>>
    /\ use_logger = TRUE
    /\ progress_log = <<>>
    /\ error_log = <<>>
    /\ processed_files = {}
    /\ failed_files = <<>>
    /\ records = <<>>
    /\ tret = NoCall
    /\ tcalls = 0
    /\ tsaved = {}
    /\ ptext \in ParseTexts
    /\ pclient = "none"
    /\ pret = NoValue
    /\ image_metadata = NoValue
    /\ full_prompt = NoValue
    /\ user_prompt = <<>>
    /\ ltree = "none"
    /\ largs = <<>>
    /\ lpc = "idle"
    /\ lstack = <<>>
    /\ lret = NoValue
    /\ lcwd = <<>>
    /\ today = 1
    /\ log_dir = 1
    /\ dated = <<>>
    /\ s3pc = "idle"
    /\ s3attempt = 0
    /\ s3args = <<>>
    /\ s3local = FALSE
    /\ s3log = <<>>
    /\ s3ret = NoValue
    /\ fsess = [open |-> FALSE, dropped |-> 0]
    /\ fchk = NoFilenameCheck

pidle == <<avars, dvars, bvars, qvars, fvars, tvars, lvars, cvars, uvars, svars>>

ParseNext ==
    \/ ParseCall /\ UNCHANGED pidle
    \/ AppParseCall /\ UNCHANGED pidle

ParseSpec == ParseInit /\ [][ParseNext]_vars

(***************************************************************************)
(* build_full_prompt (app.py): the template with its two placeholders      *)
(* replaced by the metadata section and the category catalogue             *)
(***************************************************************************)

\* number of pieces a template is made of
MaxPieces == 4

\* the placeholders "{metadata_section}" and "{categories_text}": a brace,
\* the name, a brace
MetaPlaceholder == <<"{", "metadata_section", "}">>
CatPlaceholder  == <<"{", "categories_text", "}">>

\* the pieces of a template: a placeholder, prose, or a part of a
\* placeholder (a brace or a name alone)
Pieces == {MetaPlaceholder, CatPlaceholder, <<"p">>, <<"{">>, <<"}">>,
           <<"metadata_section">>, <<"categories_text">>}

RECURSIVE Flatten(_)
Flatten(ps) == IF ps = <<>> THEN <<>> ELSE Head(ps) \o Flatten(Tail(ps))

Templates == {Flatten(ps) : ps \in SeqsUpTo(Pieces, MaxPieces)}

\* image.width, image.height, image.format and the file size
Metadata ==
    [kind : {"dict"}, width : {1920, 640}, height : {1080, 480},
     format : {"JPEG", "PNG"}, file_size : {2048}]

\* lib/categories.py; the labels are written in English here
CATEGORY_DATA ==
    << [key |-> "LocationCategory",
        items |-> << [class |-> 1, label |-> "indoor"],
                     [class |-> 2, label |-> "outdoor"],
                     [class |-> 3, label |-> "mixed"] >>],
       [key |-> "EraCategory",
        items |-> << [class |-> 1, label |-> "traditional"],
                     [class |-> 2, label |-> "modern"],
                     [class |-> 3, label |-> "mixed"],
                     [class |-> 4, label |-> "other"] >>] >>

CATEGORY_LABELS == [LocationCategory |-> "location", EraCategory |-> "era"]

\* s.strip(): white space is the newline token "NL" and the blank
IsSpace(c) == c \in {"NL", " "}
RECURSIVE LStrip(_)
LStrip(s) == IF s # <<>> /\ IsSpace(Head(s)) THEN LStrip(Tail(s)) ELSE s
RECURSIVE RStrip(_)
RStrip(s) == IF s # <<>> /\ IsSpace(s[Len(s)])
             THEN RStrip(SubSeq(s, 1, Len(s) - 1)) ELSE s
Strip(s) == RStrip(LStrip(s))

\* sep.join(parts)
RECURSIVE Join(_, _)
Join(sep, parts) ==
    IF parts = <<>> THEN <<>>
    ELSE IF Len(parts) = 1 THEN Head(parts)
    ELSE Head(parts) \o sep \o Join(sep, Tail(parts))

\* the f-string metadata_section
MetadataSection(md) ==
    <<"NL", "## image metadata", "NL", "- resolution: ">>
        \o Str(md.width) \o <<" × ">> \o Str(md.height) \o <<" px", "NL">>
        \o <<"- format: ", md.format, "NL">>
        \o <<"- size: ">> \o Str(md.file_size) \o <<" bytes", "NL">>
        \o <<"NL", "use these values as they are", "NL">>

\* the loop over CATEGORY_DATA.items() that builds categories_text
CategoriesText ==
    Flatten([i \in 1..Len(CATEGORY_DATA) |->
        LET key    == CATEGORY_DATA[i].key
            items  == CATEGORY_DATA[i].items
            labels == Join(<<",", " ">>,
                           [j \in 1..Len(items) |->
                               <<items[j].label, "(">> \o Str(items[j].class) \o <<")">>])
        IN  <<"- **", key, "** (", CATEGORY_LABELS[key], "): ">> \o labels \o <<"NL">>])

\* s.replace(pat, rep, 1): the first occurrence only
ReplaceFirst(s, pat, rep) ==
    IF Len(pat) = 0 \/ Find(s, pat) = -1 THEN s
    ELSE SubSeq(s, 1, Find(s, pat)) \o rep
            \o SubSeq(s, Find(s, pat) + Len(pat) + 1, Len(s))

\* variant: each placeholder is replaced where it occurs first
build_full_prompt_first(template, md) ==
    ReplaceFirst(ReplaceFirst(template, MetaPlaceholder, Strip(MetadataSection(md))),
                 CatPlaceholder, Strip(CategoriesText))

\* build_full_prompt(user_prompt, image_metadata)
build_full_prompt(template, md) ==
    Replace(Replace(template, MetaPlaceholder, Strip(MetadataSection(md))),
            CatPlaceholder, Strip(CategoriesText))

BuildFullPrompt ==
    /\ full_prompt = NoValue
    /\ full_prompt' = [kind |-> "str",
                       value |-> build_full_prompt(user_prompt, image_metadata)]
    /\ UNCHANGED <<ptext, pclient, pret, user_prompt, image_metadata>>

PromptInit ==
    /\ table = {}
    /\ next_uuid = 1
    /\ wpc = [w \in Workers |-> "idle"]
    /\ wid = [w \in Workers |-> 0]
    /\ chk = NoCheck
    /\ wsnap = [w \in Workers |-> [failed |-> FALSE, raised |-> FALSE, calls |-> 0]]
    /\ hist = <<>>
    /\ pc = "idle"
    /\ attempt = 0
    /\ response = NoValue
    /\ last_error = NoValue
    /\ log = <<>>
    /\ raised = NoValue
    /\ result = NoValue
    /\ parsed = FALSE
    /\ run = 0
    /\ item = <<>>
    /\ fid = <<>>
    /\ sent = {}
    /\ skipped = {}
    /\ faulted = {}
    /\ store = {}
    /\ committed0 = {}
    /\ reported = {}
    /\ fetched = {}
    /\ bchk = NoBatchCheck
    /\ fpc = "idle"
    /\ fattempt = 0
    /\ connected = FALSE
    /\ ftp = "None"
    /\ disk = <<>>
    /\ fret = NoValue
    /\ flog = <<>>
    /\ ncalls = 0
    /\ nretr = 0
    /\ fargs = <<>>
    /\ use_logger = TRUE
    /\ progress_log = <<>>
    /\ error_log = <<>>
    /\ processed_files = {}
    /\ failed_files = <<>>
    /\ records = <<>>
    /\ tret = NoCall
    /\ tcalls = 0
    /\ tsaved = {}
    /\ ptext = <<>>
    /\ pclient = "none"
    /\ pret = NoValue
    /\ image_metadata \in Metadata
    /\ full_prompt = NoValue
    /\ user_prompt \in Templates
    /\ ltree = "none"
    /\ largs = <<>>
    /\ lpc = "idle"
    /\ lstack = <<>>
    /\ lret = NoValue
    /\ lcwd = <<>>
    /\ today = 1
    /\ log_dir = 1
    /\ dated = <<>>
    /\ s3pc = "idle"
    /\ s3attempt = 0
    /\ s3args = <<>>
    /\ s3local = FALSE
    /\ s3log = <<>>
    /\ s3ret = NoValue
    /\ fsess = [open |-> FALSE, dropped |-> 0]
    /\ fchk = NoFilenameCheck

PromptNext == BuildFullPrompt /\ UNCHANGED pidle

PromptSpec == PromptInit /\ [][PromptNext]_vars

(***************************************************************************)
(* FTPClient.list_files: the listing of one directory and the recursive    *)
(* traversal, one step per listed line                                     *)
(***************************************************************************)

max_depth == 10

\* a line of the LIST output: its number of blank-separated parts, whether
\* it starts with "d", the name (parts[8:]) and, for a directory, the node
\* the server enters on cwd
FileLine(name) == [name |-> name, isdir |-> FALSE, target |-> 0, parts |-> 9]
DirLine(name, target) == [name |-> name, isdir |-> TRUE, target |-> target, parts |-> 9]
\* a line such as "total 12"
ShortLine == [name |-> <<>>, isdir |-> FALSE, target |-> 0, parts |-> 2]

TreeNames == {"plain", "cycle", "ring", "locked"}

\* what the server holds: per node whether cwd succeeds, and its listing.
\* Node 1 is the directory list_files is called for.
\*   plain : files a.p and .h.p, directories s (c.P, t.x, directory d with
\*           e.p), .x (y.p) and u (cwd fails)
\*   cycle : file a.p and a directory l that is the root again
\*   ring  : file a.p and directory r, which holds b.p and a directory q
\*           that is the root again
\*   locked: cwd fails
RemoteTree(t) ==
    CASE t = "plain" ->
           << [readable |-> TRUE,
               items |-> << ShortLine, FileLine(<<"a", ".", "p">>),
                            FileLine(<<".", "h", ".", "p">>),
                            DirLine(<<"s">>, 2), DirLine(<<".", "x">>, 3),
                            DirLine(<<"u">>, 4) >>],
              [readable |-> TRUE,
               items |-> << FileLine(<<"c", ".", "P">>), FileLine(<<"t", ".", "x">>),
                            DirLine(<<"d">>, 5) >>],
              [readable |-> TRUE, items |-> << FileLine(<<"y", ".", "p">>) >>],
              [readable |-> FALSE, items |-> <<>>],
              [readable |-> TRUE, items |-> << FileLine(<<"e", ".", "p">>) >>] >>
      [] t = "cycle" ->
           << [readable |-> TRUE,
               items |-> << FileLine(<<"a", ".", "p">>), DirLine(<<"l">>, 1) >>] >>
      [] t = "ring" ->
           << [readable |-> TRUE,
               items |-> << FileLine(<<"a", ".", "p">>), DirLine(<<"r">>, 2) >>],
              [readable |-> TRUE,
               items |-> << FileLine(<<"b", ".", "p">>), DirLine(<<"q">>, 1) >>] >>
      [] t = "locked" ->
           << [readable |-> FALSE, items |-> <<>>] >>

\* the remote_dir arguments: with and without a trailing slash
ListRoots == {RemoteDir, RemoteDir \o <<"/">>}
\* the extension arguments: None and ".p"
Extensions == {<<>>, <<".", "p">>}

\* item_name.startswith('.')
IsHidden(name) == Len(name) >= 1 /\ name[1] = "."

\* "if extension: if name.lower().endswith(extension.lower())"
ExtensionOk(name, extension) ==
    extension = <<>> \/ EndsWith(Lower(name), Lower(extension))

\* s.strip('/')
RECURSIVE StripSlash(_)
StripSlash(s) ==
    IF s # <<>> /\ Head(s) = "/" THEN StripSlash(Tail(s))
    ELSE IF s # <<>> /\ s[Len(s)] = "/" THEN StripSlash(SubSeq(s, 1, Len(s) - 1))
    ELSE s

\* the path _list_files_recursive returns for a file
ListedPath(remote_dir, base_dir, item_name) ==
    LET relative_path == StripSlash(Replace(remote_dir, base_dir, <<>>))
    IN  IF relative_path # <<>> THEN relative_path \o <<"/">> \o item_name
        ELSE item_name

\* _list_files_single: the names of the lines that are no directories
RECURSIVE SingleNames(_, _)
SingleNames(items, extension) ==
    IF items = <<>> THEN <<>>
    ELSE LET it == Head(items)
         IN  (IF it.parts >= 9 /\ ~it.isdir /\ ExtensionOk(it.name, extension)
              THEN <<it.name>> ELSE <<>>)
                 \o SingleNames(Tail(items), extension)

\* variant: "if depth > max_depth"
DepthReachedLate(depth) == depth > max_depth

\* "if depth >= max_depth: return []"
DepthReached(depth) == depth >= max_depth

\* a call of _list_files_recursive up to its loop: it returns at once (depth
\* limit, or cwd raises and the handler returns the empty list) or it holds
\* the listing of its directory
CallRecursive(remote_dir, node, depth) ==
    IF DepthReached(depth)
    THEN [kind |-> "return", cwd |-> <<>>]
    ELSE IF ~RemoteTree(ltree)[node].readable
    THEN [kind |-> "return",
          cwd |-> <<[path |-> remote_dir, node |-> node, depth |-> depth, ok |-> FALSE]>>]
    ELSE [kind |-> "frame",
          cwd |-> <<[path |-> remote_dir, node |-> node, depth |-> depth, ok |-> TRUE]>>,
          frame |-> [remote_dir |-> remote_dir, node |-> node, depth |-> depth,
                     idx |-> 1, all_files |-> <<>>]]

ListValue(v) == [kind |-> "list", value |-> v]

\* list_files(remote_dir, extension, recursive) is called
ListStart ==
    /\ lpc = "idle"
    /\ IF ~connected
       THEN /\ lret' = ListValue(<<>>)
            /\ lpc' = "done"
            /\ UNCHANGED <<lstack, lcwd>>
       ELSE IF largs.recursive
       THEN LET c == CallRecursive(largs.remote_dir, 1, 0)
            IN  /\ lcwd' = c.cwd
                /\ IF c.kind = "frame"
                   THEN /\ lstack' = <<c.frame>>
                        /\ lpc' = "run"
                        /\ UNCHANGED lret
                   ELSE /\ lret' = ListValue(<<>>)
                        /\ lpc' = "done"
                        /\ UNCHANGED lstack
       ELSE LET root == RemoteTree(ltree)[1]
            IN  /\ lcwd' = <<[path |-> largs.remote_dir, node |-> 1, depth |-> 0,
                              ok |-> root.readable]>>
                /\ lret' = ListValue(IF root.readable
                                     THEN SingleNames(root.items, largs.extension)
                                     ELSE <<>>)
                /\ lpc' = "done"
                /\ UNCHANGED lstack
    /\ UNCHANGED <<ltree, largs>>

\* one turn of "for item_info in items" in the innermost call
ListItem ==
    /\ lpc = "run"
    /\ LET n    == Len(lstack)
           top  == lstack[n]
           items == RemoteTree(ltree)[top.node].items
       IN  /\ top.idx <= Len(items)
           /\ LET it   == items[top.idx]
                  next == [lstack EXCEPT ![n].idx = @ + 1]
              IN  IF it.parts < 9 \/ IsHidden(it.name)
                  THEN lstack' = next /\ UNCHANGED lcwd
                  ELSE IF it.isdir
                  THEN LET subdir_path == Replace(top.remote_dir \o <<"/">> \o it.name,
                                                  <<"/", "/">>, <<"/">>)
                           c == CallRecursive(subdir_path, it.target, top.depth + 1)
                       IN  /\ lcwd' = lcwd \o c.cwd
                           /\ lstack' = IF c.kind = "frame"
                                        THEN Append(next, c.frame) ELSE next
                  ELSE /\ lstack' =
                            IF ExtensionOk(it.name, largs.extension)
                            THEN [next EXCEPT ![n].all_files =
                                    Append(@, ListedPath(top.remote_dir,
                                                         largs.remote_dir, it.name))]
                            ELSE next
                       /\ UNCHANGED lcwd
    /\ UNCHANGED <<ltree, largs, lpc, lret>>

\* the innermost call returns all_files: to list_files, which returns it, or
\* to the calling _list_files_recursive, which extends its own list
ListReturn ==
    /\ lpc = "run"
    /\ LET n   == Len(lstack)
           top == lstack[n]
       IN  /\ top.idx > Len(RemoteTree(ltree)[top.node].items)
           /\ IF n = 1
              THEN /\ lret' = ListValue(top.all_files)
                   /\ lstack' = <<>>
                   /\ lpc' = "done"
              ELSE /\ lstack' = [SubSeq(lstack, 1, n - 1) EXCEPT
                                    ![n - 1].all_files = @ \o top.all_files]
                   /\ UNCHANGED <<lret, lpc>>
    /\ UNCHANGED <<ltree, largs, lcwd>>

ListInit ==
    /\ table = {}
    /\ next_uuid = 1
    /\ wpc = [w \in Workers |-> "idle"]
    /\ wid = [w \in Workers |-> 0]
    /\ chk = NoCheck
    /\ wsnap = [w \in Workers |-> [failed |-> FALSE, raised |-> FALSE, calls |-> 0]]
    /\ hist = <<>>
    /\ pc = "idle"
    /\ attempt = 0
    /\ response = NoValue
    /\ last_error = NoValue
    /\ log = <<>>
    /\ raised = NoValue
    /\ result = NoValue
    /\ parsed = FALSE
    /\ run = 0
    /\ item = <<>>
    /\ fid = <<>>
    /\ sent = {}
    /\ skipped = {}
    /\ faulted = {}
    /\ store = {}
    /\ committed0 = {}
    /\ reported = {}
    /\ fetched = {}
    /\ bchk = NoBatchCheck
    /\ fpc = "idle"
    /\ fattempt = 0
    /\ connected \in BOOLEAN
    /\ ftp = "FTP"
    /\ disk = <<>>
    /\ fret = NoValue
    /\ flog = <<>>
    /\ ncalls = 0
    /\ nretr = 0
    /\ fargs = <<>>
    /\ use_logger = TRUE
    /\ progress_log = <<>>
    /\ error_log = <<>>
    /\ processed_files = {}
    /\ failed_files = <<>>
    /\ records = <<>>
    /\ tret = NoCall
    /\ tcalls = 0
    /\ tsaved = {}
    /\ ptext = <<>>
    /\ pclient = "none"
    /\ pret = NoValue
    /\ image_metadata = NoValue
    /\ full_prompt = NoValue
    /\ user_prompt = <<>>
    /\ ltree \in TreeNames
    /\ largs \in [remote_dir : ListRoots, extension : Extensions,
                 recursive : BOOLEAN]
    /\ lpc = "idle"
    /\ lstack = <<>>
    /\ lret = NoValue
    /\ lcwd = <<>>
    /\ today = 1
    /\ log_dir = 1
    /\ dated = <<>>
    /\ s3pc = "idle"
    /\ s3attempt = 0
    /\ s3args = <<>>
    /\ s3local = FALSE
    /\ s3log = <<>>
    /\ s3ret = NoValue
    /\ fsess = [open |-> FALSE, dropped |-> 0]
    /\ fchk = NoFilenameCheck

lidle == <<avars, dvars, bvars, qvars, fvars, tvars, pvars, cvars, uvars, svars>>

ListNext ==
    \/ ListStart /\ UNCHANGED lidle
    \/ ListItem /\ UNCHANGED lidle
    \/ ListReturn /\ UNCHANGED lidle

ListSpec == ListInit /\ [][ListNext]_vars

\* the call runs on: a step that is possible is taken
ListLive == ListSpec /\ WF_vars(ListNext)

(***************************************************************************)
(* Logger and ProgressTracker: the directory an entry is written to and    *)
(* the date of its timestamp                                               *)
(***************************************************************************)

\* the days the clock runs through
MaxDays == 2
\* number of log calls explored
MaxEntries == 3

\* an entry: the file it went to (progress.jsonl or error.log), its status,
\* the day of its timestamp (datetime.now() in log_progress / log_error)
\* and the day its directory self.log_dir is named for
Entry(which, status) ==
    [log |-> which, status |-> status, day |-> today, dir |-> log_dir]

\* midnight passes
Midnight ==
    /\ today < MaxDays
    /\ today' = today + 1
    /\ UNCHANGED <<log_dir, dated>>

\* Logger() (ProgressTracker() makes one): self.today is taken from the
\* clock and log_dir / progress_log / error_log are fixed
NewLogger ==
    /\ log_dir' = today
    /\ UNCHANGED <<today, dated>>

\* log_success / log_skipped: log_progress appends one line to
\* self.progress_log
log_progress(status) ==
    /\ Len(dated) < MaxEntries
    /\ dated' = Append(dated, Entry("progress", status))
    /\ UNCHANGED <<today, log_dir>>

\* log_failed: a line in self.progress_log, then an entry in self.error_log
log_failed ==
    /\ Len(dated) < MaxEntries
    /\ dated' = dated \o <<Entry("progress", "failed"), Entry("error", "failed")>>
    /\ UNCHANGED <<today, log_dir>>

DateInit ==
    /\ table = {}
    /\ next_uuid = 1
    /\ wpc = [w \in Workers |-> "idle"]
    /\ wid = [w \in Workers |-> 0]
    /\ chk = NoCheck
    /\ wsnap = [w \in Workers |-> [failed |-> FALSE, raised |-> FALSE, calls |-> 0]]
    /\ hist = <<>>
    /\ pc = "idle"
    /\ attempt = 0
    /\ response = NoValue
    /\ last_error = NoValue
    /\ log = <<>>
    /\ raised = NoValue
    /\ result = NoValue
    /\ parsed = FALSE
    /\ run = 0
    /\ item = <<>>
    /\ fid = <<>>
    /\ sent = {}
    /\ skipped = {}
    /\ faulted = {}
    /\ store = {}
    /\ committed0 = {}
    /\ reported = {}
    /\ fetched = {}
    /\ bchk = NoBatchCheck
    /\ fpc = "idle"
    /\ fattempt = 0
    /\ connected = FALSE
    /\ ftp = "None"
    /\ disk = <<>>
    /\ fret = NoValue
    /\ flog = <<>>
    /\ ncalls = 0
    /\ nretr = 0
    /\ fargs = <<>>
    /\ use_logger = TRUE
    /\ progress_log = <<>>
    /\ error_log = <<>>
    /\ processed_files = {}
    /\ failed_files = <<>>
    /\ records = <<>>
    /\ tret = NoCall
    /\ tcalls = 0
    /\ tsaved = {}
    /\ ptext = <<>>
    /\ pclient = "none"
    /\ pret = NoValue
    /\ image_metadata = NoValue
    /\ full_prompt = NoValue
    /\ user_prompt = <<>>
    /\ ltree = "none"
    /\ largs = <<>>
    /\ lpc = "idle"
    /\ lstack = <<>>
    /\ lret = NoValue
    /\ lcwd = <<>>
    /\ today = 1
    /\ log_dir = 1
    /\ dated = <<>>
    /\ s3pc = "idle"
    /\ s3attempt = 0
    /\ s3args = <<>>
    /\ s3local = FALSE
    /\ s3log = <<>>
    /\ s3ret = NoValue
    /\ fsess = [open |-> FALSE, dropped |-> 0]
    /\ fchk = NoFilenameCheck

cidle == <<avars, dvars, bvars, qvars, fvars, tvars, pvars, lvars, uvars, svars>>

DateNext ==
    \/ Midnight /\ UNCHANGED cidle
    \/ NewLogger /\ UNCHANGED cidle
    \/ \E st \in {"success", "skipped"} : log_progress(st) /\ UNCHANGED cidle
    \/ log_failed /\ UNCHANGED cidle

DateSpec == DateInit /\ [][DateNext]_vars

(***************************************************************************)
(* S3Uploader.upload_image: upload with retries and back-off               *)
(***************************************************************************)

\* max_retries of upload_image (default; the caller passes none)
s3_max_retries == 3

\* Path(filename).suffix: none, or an extension
Suffixes == {<<>>, <<".", "p", "n", "g">>}

\* what s3_client.upload_file does: it completes, raises ClientError with
\* an error code, or raises another exception
UploadOutcomes ==
    {[kind |-> "ok", type |-> "", msg |-> ""]}
      \cup [kind : {"raise"}, type : {"ClientError"}, msg : {"SlowDown", "AccessDenied"}]
      \cup [kind : {"raise"}, type : {"Exception"}, msg : {"timed out", "broken pipe"}]

\* file_extension = Path(filename).suffix or '.jpg'
FileExtension(suffix) == IF suffix = <<>> THEN <<".", "j", "p", "g">> ELSE suffix

\* s3_object_key = f"{self.base_path}/{s3_key}/{s3_key}{file_extension}"
S3ObjectKey(suffix) == <<"base_path", "/", "s3_key", "/", "s3_key">> \o FileExtension(suffix)

\* upload_info, and the dict after the loop
UploadInfo(success) ==
    [kind |-> "dict", success |-> success, key |-> S3ObjectKey(s3args.suffix),
     file_size |-> s3args.file_size]

\* variant: the wait grows linearly
WaitTimeLinear(n) == 2 * n

\* wait_time = 2 ** attempt
WaitTime(n) == 2 ^ n

\* upload_image(local_path, s3_key, filename) is called: the existence
\* check, the key and the file size; the loop is entered when range() is
\* not empty
UploadImageStart ==
    /\ s3pc = "idle"
    /\ IF ~s3local
       THEN /\ s3ret' = Error("FileNotFoundError", "local_path", 0)
            /\ s3pc' = "done"
       ELSE IF s3_max_retries <= 0
       THEN /\ s3ret' = UploadInfo(FALSE)
            /\ s3pc' = "done"
       ELSE /\ s3pc' = "try"
            /\ UNCHANGED s3ret
    /\ s3attempt' = 0
    /\ UNCHANGED <<s3args, s3local, s3log>>

\* one turn of the loop up to the sleep: upload_file is called; when it
\* completes the local file is removed if asked for (a failing unlink is
\* printed only) and upload_info is returned; when it raises, the handler
\* goes on to sleep or, in the last turn, raises the error again
UploadImageAttempt(o, unlinked) ==
    /\ s3pc = "try"
    /\ s3log' = Append(s3log, [op |-> "upload_file", attempt |-> s3attempt + 1,
                               outcome |-> o, secs |-> 0])
    /\ IF o.kind = "ok"
       THEN /\ s3local' = IF s3args.cleanup_after_upload /\ unlinked
                          THEN FALSE ELSE s3local
            /\ s3ret' = UploadInfo(TRUE)
            /\ s3pc' = "done"
       ELSE IF s3attempt < s3_max_retries - 1
       THEN /\ s3pc' = "sleep"
            /\ UNCHANGED <<s3local, s3ret>>
       ELSE /\ s3ret' = Error(o.type, o.msg, s3attempt + 1)
            /\ s3pc' = "done"
            /\ UNCHANGED s3local
    /\ UNCHANGED <<s3args, s3attempt>>

\* time.sleep(wait_time), then the next turn of the loop
UploadImageSleep ==
    /\ s3pc = "sleep"
    /\ s3log' = Append(s3log, [op |-> "sleep", attempt |-> s3attempt + 1,
                               outcome |-> [kind |-> "ok", type |-> "", msg |-> ""],
                               secs |-> WaitTime(s3attempt)])
    /\ s3attempt' = s3attempt + 1
    /\ s3pc' = "try"
    /\ UNCHANGED <<s3args, s3local, s3ret>>

S3Init ==
    /\ table = {}
    /\ next_uuid = 1
    /\ wpc = [w \in Workers |-> "idle"]
    /\ wid = [w \in Workers |-> 0]
    /\ chk = NoCheck
    /\ wsnap = [w \in Workers |-> [failed |-> FALSE, raised |-> FALSE, calls |-> 0]]
    /\ hist = <<>>
    /\ pc = "idle"
    /\ attempt = 0
    /\ response = NoValue
    /\ last_error = NoValue
    /\ log = <<>>
    /\ raised = NoValue
    /\ result = NoValue
    /\ parsed = FALSE
    /\ run = 0
    /\ item = <<>>
    /\ fid = <<>>
    /\ sent = {}
    /\ skipped = {}
    /\ faulted = {}
    /\ store = {}
    /\ committed0 = {}
    /\ reported = {}
    /\ fetched = {}
    /\ bchk = NoBatchCheck
    /\ fpc = "idle"
    /\ fattempt = 0
    /\ connected = FALSE
    /\ ftp = "None"
    /\ disk = <<>>
    /\ fret = NoValue
    /\ flog = <<>>
    /\ ncalls = 0
    /\ nretr = 0
    /\ fargs = <<>>
    /\ use_logger = TRUE
    /\ progress_log = <<>>
    /\ error_log = <<>>
    /\ processed_files = {}
    /\ failed_files = <<>>
    /\ records = <<>>
    /\ tret = NoCall
    /\ tcalls = 0
    /\ tsaved = {}
    /\ ptext = <<>>
    /\ pclient = "none"
    /\ pret = NoValue
    /\ image_metadata = NoValue
    /\ full_prompt = NoValue
    /\ user_prompt = <<>>
    /\ ltree = "none"
    /\ largs = <<>>
    /\ lpc = "idle"
    /\ lstack = <<>>
    /\ lret = NoValue
    /\ lcwd = <<>>
    /\ today = 1
    /\ log_dir = 1
    /\ dated = <<>>
    /\ s3pc = "idle"
    /\ s3attempt = 0
    /\ s3args \in [cleanup_after_upload : BOOLEAN, suffix : Suffixes,
                  file_size : {2048}]
    /\ s3local \in BOOLEAN
    /\ s3log = <<>>
    /\ s3ret = NoValue
    /\ fsess = [open |-> FALSE, dropped |-> 0]
    /\ fchk = NoFilenameCheck

uidle == <<avars, dvars, bvars, qvars, fvars, tvars, pvars, lvars, cvars, svars>>

S3Next ==
    \/ UploadImageStart /\ UNCHANGED uidle
    \/ \E o \in UploadOutcomes, unlinked \in BOOLEAN :
          UploadImageAttempt(o, unlinked) /\ UNCHANGED uidle
    \/ UploadImageSleep /\ UNCHANGED uidle

S3Spec == S3Init /\ [][S3Next]_vars

(***************************************************************************)
(* Properties of analyze_image                                             *)
(***************************************************************************)

CallIdx == {i \in 1..Len(log) : log[i].ev = "call"}
Ended   == pc \in {"done", "failed"}

\* the model call of log entry i raised, within the timeout, an exception
\* whose message contains "500" or (in any case) "internal error"
RaisedRetryable(i) ==
    /\ log[i].out.duration <= 120
    /\ log[i].out.raises
    /\ log[i].out.msg \in {Msg500, MsgInternal, MsgINTERNAL}

\* ... an exception whose message contains neither
RaisedOther(i) ==
    /\ log[i].out.duration <= 120
    /\ log[i].out.raises
    /\ log[i].out.msg \in {MsgQuota, MsgNear}

TimedOut(i) == log[i].out.duration > 120

Returned(i) ==
    /\ log[i].out.duration <= 120
    /\ ~log[i].out.raises

\* C1: when every model call raises a retryable error, the model is called
\* exactly 3 times, analyze_image then fails with the error of the third
\* call, and there is never a fourth call.
C1_RetryBound ==
    /\ NumCalls <= 3
    /\ (Ended /\ NumCalls >= 1 /\ \A i \in CallIdx : RaisedRetryable(i))
          => /\ pc = "failed"
             /\ NumCalls = 3
             /\ raised.kind = "error"
             /\ raised.at = 3
             /\ raised.msg = <<"analysis failed: ">> \o log[Len(log)].out.msg

C1_Witness ==
    /\ pc = "failed"
    /\ NumCalls = 3
    /\ \A i \in CallIdx : RaisedRetryable(i)
    /\ log[1].out.msg = MsgINTERNAL
    /\ log[Len(log)].out.msg = Msg500

\* C2: a response with zero candidates ends the calls: it is the last entry
\* of the history (no sleep, no call after it), analyze_image fails, and when
\* it answers the first call the model has been called exactly once.
C2_NoRetryOnEmpty ==
    \A i \in CallIdx :
        (Returned(i) /\ Len(log[i].out.resp.candidates) = 0)
            => /\ i = Len(log)
               /\ pc \in {"after", "failed"}
               /\ result.kind = "None"
               /\ (i = 1 => NumCalls = 1)

C2_Witness ==
    /\ pc = "failed"
    /\ Len(log) = 1
    /\ Returned(1)
    /\ Len(log[1].out.resp.candidates) = 0

\* C3: an exception that is neither a timeout nor retryable propagates right
\* after the call that raised it, on the 1st, 2nd or 3rd attempt: that call is
\* the last entry of the history and analyze_image has failed with its error.
C3_OtherErrorPropagates ==
    \A i \in CallIdx :
        RaisedOther(i)
            => /\ i = Len(log)
               /\ pc = "failed"
               /\ raised.kind = "error"
               /\ raised.at = NumCalls
               /\ raised.msg = <<"analysis failed: ">> \o log[i].out.msg

C3_Witness ==
    /\ pc = "failed"
    /\ NumCalls = 2
    /\ RaisedRetryable(1)
    /\ RaisedOther(Len(log))

\* C4: timeouts and retryable errors share one attempt counter: at most 3
\* calls whatever the mix, calls and 5 s sleeps alternate (a sleep precedes
\* every retry), no sleep follows the final attempt, and a call that returns
\* a response is the last one.
C4_SharedCounter ==
    /\ NumCalls <= 3
    /\ \A i \in 1..Len(log) :
          /\ (i % 2 = 1) => log[i].ev = "call"
          /\ (i % 2 = 0) => (log[i].ev = "sleep" /\ log[i].secs = 5)
    /\ (pc \in {"after", "done", "failed"} /\ Len(log) > 0)
          => log[Len(log)].ev = "call"
    /\ \A i \in CallIdx : Returned(i) => i = Len(log)
    /\ \A i \in CallIdx : (i < Len(log)) => (TimedOut(i) \/ RaisedRetryable(i))

C4_Witness ==
    /\ pc = "failed"
    /\ NumCalls = 3
    /\ NumSleeps = 2
    /\ TimedOut(1)
    /\ RaisedRetryable(3)
    /\ TimedOut(5)

\* C5: when the first candidate's finish reason is not 1 (normal stop),
\* analyze_image fails without another model call and without entering
\* _parse_response, and the error message contains the finish reason.
C5_AbnormalFinish ==
    (/\ response.kind = "response"
     /\ Len(response.candidates) > 0
     /\ response.candidates[1].finish_reason # 1)
        => /\ ~parsed
           /\ pc \in {"after", "failed"}
           /\ log[Len(log)].ev = "call"
           /\ log[Len(log)].out.resp = response
           /\ pc = "failed" =>
                 /\ raised.kind = "error"
                 /\ Contains(raised.msg,
                       <<"finish_reason=">> \o Str(response.candidates[1].finish_reason))

C5_Witness ==
    /\ pc = "failed"
    /\ response.kind = "response"
    /\ Len(response.candidates) > 0
    /\ response.candidates[1].finish_reason = 2
    /\ NumCalls = 2


(***************************************************************************)
(* Properties of DatabaseUploader                                          *)
(***************************************************************************)

SamePair(a, b) == a.file_path = b.file_path /\ a.file_hash = b.file_hash

\* C7: of two upload_image_result calls with the same (file_path, file_hash),
\* whatever their s3_key, raw_meta and raw_gemini, a call that finds the pair
\* not yet stored (and whose statement executes) returns a record id and adds
\* exactly one row; every later call returns None and adds no row; the table
\* never holds two rows for the pair.
C7_IdempotentInsert ==
    /\ \A i \in 1..Len(hist), j \in 1..Len(hist) :
          (i < j /\ SamePair(hist[i], hist[j]) /\ hist[i].ret # 0)
              => (hist[j].ret = 0 /\ hist[j].rows_after = hist[j].rows_before)
    /\ \A j \in 1..Len(hist) :
          (/\ ~hist[j].db_fails
           /\ \A i \in 1..(j - 1) : ~(SamePair(hist[i], hist[j]) /\ hist[i].ret # 0))
              => (hist[j].ret # 0 /\ hist[j].rows_after = hist[j].rows_before + 1)
    /\ \A p \in DbPaths, h \in Hashes :
          Cardinality({r \in table : r.file_path = p /\ r.file_hash = h}) <= 1

C7_Witness ==
    /\ Len(hist) = 2
    /\ SamePair(hist[1], hist[2])
    /\ hist[1].ret # 0
    /\ hist[2].ret = 0
    /\ ~hist[2].db_fails
    /\ hist[1].s3_key # hist[2].s3_key
    /\ hist[1].file_id # hist[2].file_id
    /\ Cardinality(table) = 1

\* C13: upload_image_result returns None exactly when the conflict branch
\* fired and nothing was written, and a call whose statement fails ends with
\* an error raised to the caller, not with None.
C13_NoneIffConflict ==
    \A i \in 1..Len(hist) :
        /\ (hist[i].ret = 0 /\ ~hist[i].raised)
              <=> (hist[i].conflict /\ hist[i].rows_after = hist[i].rows_before)
        /\ hist[i].db_fails => hist[i].raised

\* the smallest positive integer not in S
Mex(S) == CHOOSE n \in 1..(Cardinality(S) + 1) :
             /\ n \notin S
             /\ \A m \in 1..(n - 1) : m \in S

IdsOf(T) == {r.file_id : r \in T}
DistinctPositiveIds(T) ==
    /\ \A r \in T : r.file_id >= 1
    /\ \A r1 \in T, r2 \in T : (r1.file_id = r2.file_id) => (r1 = r2)

\* C8: on a table whose File_info.Id values are distinct positive integers,
\* get_next_file_id (queries succeeding) returns the smallest positive integer
\* not among them: the lowest gap, max+1 without a gap, 1 for an empty table.
C8_SmallestMissingId ==
    (/\ wpc[1] = "got_id"
     /\ ~wsnap[1].failed
     /\ DistinctPositiveIds(table))
        => /\ wid[1] = Mex(IdsOf(table))
           /\ (table = {}) => (wid[1] = 1)
           /\ (table # {} /\ IdsOf(table) = 1..Cardinality(table))
                 => (wid[1] = SetMax(IdsOf(table)) + 1)

C8_Witness ==
    /\ wpc[1] = "got_id"
    /\ ~wsnap[1].failed
    /\ DistinctPositiveIds(table)
    /\ IdsOf(table) = {1, 2, 4, 5}
    /\ wid[1] = 3

\* C14: a get_next_file_id call never ends with an exception, and a call one
\* of whose queries failed has returned 1, whatever IDs the table holds.
C14_FallbackToOne ==
    \A w \in Workers :
        wpc[w] = "got_id"
            => /\ ~wsnap[w].raised
               /\ wsnap[w].failed => wid[w] = 1

\* a query failed on a table that already holds ID 1 and has a gap at 3
C14_Witness ==
    /\ wpc[1] = "got_id"
    /\ wsnap[1].failed
    /\ wid[1] = 1
    /\ IdsOf(table) = {1, 2, 4}

\* C32: when its queries succeed, get_next_file_id returns an ID that no
\* stored record holds, also on a table with duplicate File_info.Id values
\* or with the ID 0.
C32_ReturnedIdIsFree ==
    (wpc[1] = "got_id" /\ ~wsnap[1].failed) => wid[1] \notin IdsOf(table)

\* the File_info.Id values stored before the first step
OldIds == {r.file_id : r \in {x \in table : \E v \in 1..MaxId : x = OldRow(v, 1)}}
OldMax == IF OldIds = {} THEN 0 ELSE SetMax(OldIds)
\* the IDs missing below the largest one when the steps start
OldGaps == (1..OldMax) \ OldIds
\* the k-th smallest element of S
KthSmallest(S, k) == CHOOSE x \in S : Cardinality({y \in S : y <= x}) = k

\* C15: sequential allocate-then-insert steps on a table of distinct positive
\* IDs hand out the missing IDs in ascending order, then the IDs above the
\* initial maximum one by one; once as many records were inserted as there
\* were gaps, the IDs stored are exactly 1..n, n the number of records.
C15_NoPermanentHoles ==
    LET g == Cardinality(OldGaps)
    IN  /\ \A i \in 1..Len(hist) :
              hist[i].file_id = IF i <= g THEN KthSmallest(OldGaps, i)
                                ELSE OldMax + (i - g)
        /\ Len(hist) >= g
              => /\ IdsOf(table) = 1..(Cardinality(OldIds) + Len(hist))
                 /\ Cardinality(table) = Cardinality(IdsOf(table))

\* IDs 2 and 5 stored: four steps handed out 1, 3, 4 and then 6
C15_Witness ==
    /\ OldIds = {2, 5}
    /\ Len(hist) = 4
    /\ [i \in 1..4 |-> hist[i].file_id] = <<1, 3, 4, 6>>
    /\ IdsOf(table) = 1..6

\* C9: get_next_file_id reserves nothing, so two workers that both call it
\* (queries succeeding) with no insert in between hold the same ID; an insert
\* whose (path, hash) pair is not stored succeeds with the ID it was given,
\* also when a stored record already holds that ID.
C9_AllocatorRace ==
    /\ \A w1 \in Workers, w2 \in Workers :
          (/\ wpc[w1] = "got_id" /\ wpc[w2] = "got_id"
           /\ ~wsnap[w1].failed /\ ~wsnap[w2].failed
           /\ wsnap[w1].calls = wsnap[w2].calls)
              => wid[w1] = wid[w2]
    /\ \A j \in 1..Len(hist) :
          (/\ ~hist[j].db_fails
           /\ \A i \in 1..(j - 1) : ~(SamePair(hist[i], hist[j]) /\ hist[i].ret # 0))
              => \E r \in table : r.id = hist[j].ret /\ r.file_id = hist[j].file_id

\* two stored records hold the same File_info.Id, handed out by two
\* successful get_next_file_id calls
C9_Witness ==
    /\ Len(hist) = 2
    /\ hist[1].ret # 0 /\ hist[2].ret # 0
    /\ ~hist[1].fallback /\ ~hist[2].fallback
    /\ hist[1].file_id = hist[2].file_id
    /\ ~SamePair(hist[1], hist[2])
    /\ \E r1 \in table, r2 \in table :
          r1 # r2 /\ r1.file_id = r2.file_id /\ r1.file_id = hist[1].file_id

\* C10: check_duplicate_by_path_and_hash(path, hash) returns a record exactly
\* when a stored row has both that path and that hash, and the record is such
\* a row; the same hash under another path, or the same path with another
\* hash, is not a duplicate.
C10_PathAndHash ==
    (chk.file_hash # "" /\ ~chk.raised)
        => /\ (chk.ret.kind = "record")
                 <=> (\E r \in table : r.file_path = chk.file_path
                                       /\ r.file_hash = chk.file_hash)
           /\ (chk.ret.kind = "record")
                 => /\ chk.ret.path = chk.file_path
                    /\ chk.ret.file_hash = chk.file_hash
                    /\ \E r \in table : r.id = chk.ret.id
                                        /\ r.file_path = chk.file_path
                                        /\ r.file_hash = chk.file_hash

C10_Witness ==
    /\ chk.file_hash # ""
    /\ ~chk.raised
    /\ chk.ret.kind = "None"
    /\ \E r \in table : r.file_hash = chk.file_hash /\ r.file_path # chk.file_path
    /\ \E r \in table : r.file_path = chk.file_path /\ r.file_hash # chk.file_hash


(***************************************************************************)
(* Properties of the batch run                                             *)
(***************************************************************************)

RunEnded == run >= 1 /\ \A f \in Files : item[f] \in Terminal

C11_BatchSkip ==
    /\ fetched \cap reported = {}
    /\ fetched \subseteq Files
    /\ RunEnded =>
          /\ fetched = Files \ reported
          /\ Cardinality(fetched)
                = Cardinality(Files) - Cardinality(Files \cap reported)

\* a restarted run has ended: one listed file was reported, downloads were
\* attempted for the two others
C11_Witness ==
    /\ run = 2
    /\ RunEnded
    /\ Files \cap reported = {FileA}
    /\ fetched = {FileB, FileC}

(***************************************************************************)
(* Properties of check_duplicate_batch                                     *)
(***************************************************************************)

\* the candidates of the last call that a stored record has the path
\* remote_dir + '/' + p of
StoredCandidates ==
    {p \in bchk.filenames :
        \E r \in table : r.file_path = bchk.remote_dir \o <<"/">> \o p}

\* C12: a call with remote_dir given that returns has returned exactly the
\* candidates stored under remote_dir + '/' + p (none missing, nothing that
\* is not a candidate), and a call with no candidates has returned the empty
\* set without querying.
C12_BatchCheckExact ==
    (bchk.called /\ ~bchk.raised /\ bchk.remote_dir # <<>>)
        => /\ bchk.ret = StoredCandidates
           /\ bchk.filenames = {} => (bchk.ret = {} /\ ~bchk.queried)

\* the candidates of the last call that the path of a stored record ends with
SuffixMatched ==
    {p \in bchk.filenames : \E r \in table : EndsWith(r.file_path, p)}

\* C38: a call without remote_dir that returns has returned only elements of
\* the candidate list, and removing the returned paths from the candidates
\* removes exactly the candidates that matched a stored record.
C38_SuffixResultWithinCandidates ==
    (bchk.called /\ ~bchk.raised /\ bchk.remote_dir = <<>>)
        => /\ bchk.ret \subseteq bchk.filenames
           /\ bchk.filenames \ bchk.ret = bchk.filenames \ SuffixMatched

\* the stored records that are the file of the last check_duplicate_by_filename
\* call: the path is the name itself or ends with '/' + name
SameFile ==
    {r \in table : \/ r.file_path = fchk.filename
                   \/ EndsWith(r.file_path, <<"/">> \o fchk.filename)}

\* C39: check_duplicate_by_filename(f) has returned True only when a stored
\* record is the file f itself: a stored path that merely ends with the
\* string f (the file name of another file) does not make it True.
C39_FilenameCheckExact ==
    (fchk.called /\ ~fchk.raised /\ fchk.ret) => SameFile # {}

(***************************************************************************)
(* Properties of download_file                                             *)
(***************************************************************************)

Retrs == {i \in 1..Len(flog) : flog[i].ev = "retr"}
Errors == {i \in 1..Len(flog) : flog[i].ev = "error"}
\* the attempts that a failed reconnect at the top of the loop used up
LostAttempts ==
    {i \in 1..Len(flog) : /\ flog[i].ev = "reconnect"
                          /\ flog[i].where = "top"
                          /\ ~flog[i].ok}

\* the message holds none of 'broken pipe', 'connection', 'timeout', 'reset'
\* (in any letter case)
NotConnectionClass(msg) ==
    /\ ~Contains(Lower(msg), <<"b", "r", "o", "k", "e", "n", " ", "p", "i", "p", "e">>)
    /\ ~Contains(Lower(msg), <<"c", "o", "n", "n", "e", "c", "t", "i", "o", "n">>)
    /\ ~Contains(Lower(msg), <<"t", "i", "m", "e", "o", "u", "t">>)
    /\ ~Contains(Lower(msg), <<"r", "e", "s", "e", "t">>)

\* C16: a download_file call sends RETR at most 3 times, the attempts used up
\* by a failed reconnect counted in, each in an attempt of its own; and an
\* error whose message is not connection-class is the last thing the call
\* does: it ends in failure with no further attempt.
C16_DownloadAttempts ==
    /\ Cardinality(Retrs) + Cardinality(LostAttempts) <= 3
    /\ \A i \in Retrs \cup LostAttempts, j \in Retrs \cup LostAttempts :
          (i # j) => (flog[i].at # flog[j].at)
    /\ \A i \in Errors :
          NotConnectionClass(flog[i].msg)
              => (i = Len(flog) /\ fpc = "done" /\ fret = NoValue)

\* three transfers were sent and failed with connection-class errors
C16_Witness ==
    /\ fpc = "done"
    /\ Cardinality(Retrs) = 3
    /\ fret = NoValue

\* the errors of the current call whose message is connection-class
ConnErrors == {i \in Errors : ~NotConnectionClass(flog[i].msg)}

\* C17: the handler of a connection-class error leaves the client marked
\* disconnected; RETR is never sent while the client is marked disconnected;
\* and between a connection-class error and the next RETR of the call a
\* reconnect has succeeded.
C17_ReconnectBeforeRetry ==
    /\ \A i \in ConnErrors : ~flog[i].connected
    /\ \A j \in Retrs : flog[j].connected
    /\ \A i \in ConnErrors, j \in Retrs :
          (i < j) => \E k \in (i + 1)..(j - 1) :
                        flog[k].ev = "reconnect" /\ flog[k].ok

\* a transfer failed with a connection-class error, the reconnect in the
\* handler failed, the one at the top of the next attempt succeeded, and the
\* second transfer was sent
C17_Witness ==
    /\ Len(flog) >= 5
    /\ flog[1].ev = "retr"
    /\ 2 \in ConnErrors
    /\ flog[3].ev = "reconnect" /\ ~flog[3].ok
    /\ flog[4].ev = "reconnect" /\ flog[4].ok
    /\ flog[5].ev = "retr"

\* the last thing the call did is a transfer that completed
LastTransferCompleted ==
    /\ flog # <<>>
    /\ flog[Len(flog)].ev = "retr"
    /\ flog[Len(flog)].ok

\* C18: a path is returned only when the transfer of the returning attempt
\* completed, it is the local file of the call, and that file then holds the
\* bytes of that transfer and nothing else; a call that ended otherwise has
\* returned None.
C18_PathOnlyOnFullWrite ==
    /\ fret.kind = "path"
          => /\ LastTransferCompleted
             /\ fret.path = LocalFilePath(fargs.filename, fargs.local_path)
             /\ disk[fret.path] = [i \in 1..Len(RemoteBytes) |->
                                     [n |-> flog[Len(flog)].n, b |-> RemoteBytes[i]]]
    /\ (fpc = "done" /\ ~LastTransferCompleted) => fret = NoValue

\* the second attempt returned the path of a file that an earlier download
\* had left and that the first attempt had written a part of
C18_Witness ==
    /\ fret.kind = "path"
    /\ Cardinality(Retrs) = 2
    /\ \E i \in Errors : flog[i].where = "retr"
    /\ \E p \in LocalPaths : disk[p] = OldBytes

(***************************************************************************)
(* Properties of the outcome log                                           *)
(***************************************************************************)

\* C19: no save_success, save_failed or save_skipped call ends with an
\* exception, also when a log file cannot be written or the metadata cannot
\* be serialised.
C19_NeverRaises == ~tret.raised

IsPrefix(a, b) == Len(a) <= Len(b) /\ SubSeq(b, 1, Len(a)) = a

FileLists == UNION {[1..n -> TrackedFiles] : n \in 0..2}

\* the calls of the given kind for the file that ended normally on the
\* current tracker object
SavedHere(op, f) == [op |-> op, filename |-> f, raised |-> FALSE] \in tsaved

SaveReturned == tcalls' = tcalls + 1 /\ ~tret'.raised

\* C33: no filename is in processed_files and failed_files at once, get_stats
\* counts the two disjoint sets, and a save_success / save_failed call moves
\* its file to the set of its outcome and leaves every other file, and a
\* skipped file, where it was.
C33_DisjointOutcomes ==
    /\ [](/\ processed_files \cap DOMAIN failed_files = {}
          /\ get_stats.success + get_stats.failed
                = Cardinality(processed_files \cup DOMAIN failed_files))
    /\ [][ SaveReturned =>
              \A g \in TrackedFiles :
                 /\ (g = tret'.filename /\ tret'.op = "save_success") =>
                       (is_processed(g)' /\ ~is_failed(g)')
                 /\ (g = tret'.filename /\ tret'.op = "save_failed") =>
                       (is_failed(g)' /\ ~is_processed(g)')
                 /\ (g # tret'.filename \/ tret'.op = "save_skipped") =>
                       /\ is_processed(g)' = is_processed(g)
                       /\ is_failed(g)' = is_failed(g)
         ]_vars

\* a file recorded as success and then as failed, next to a processed one
C33_Witness ==
    /\ SavedHere("save_success", FileA)
    /\ tret = [op |-> "save_failed", filename |-> FileA, raised |-> FALSE]
    /\ is_failed(FileA) /\ ~is_processed(FileA)
    /\ is_processed(FileB)
    /\ get_stats = [success |-> 1, failed |-> 1]

\* C34: the filenames of the records map are the filenames of
\* processed_files; a file whose latest outcome is "failed" has no record.
C34_RecordsMatchProcessed ==
    DOMAIN records = processed_files

\* C35: a save_skipped call leaves processed_files, failed_files and
\* records as they were, hence also both get_stats figures and every
\* get_remaining_files result; the skipped file is returned by
\* get_remaining_files unless it is in processed_files.
C35_SkippedChangesOnlyLog ==
    [][ (tcalls' = tcalls + 1 /\ tret'.op = "save_skipped") =>
           /\ processed_files' = processed_files
           /\ failed_files' = failed_files
           /\ records' = records
           /\ get_stats' = get_stats
           /\ \A all_files \in FileLists :
                 get_remaining_files(all_files)' = get_remaining_files(all_files)
           /\ \A g \in TrackedFiles :
                 g = tret'.filename =>
                    get_remaining_files(<<g>>)'
                       = (IF g \in processed_files THEN <<>> ELSE <<g>>)
      ]_vars

\* a file recorded as failed was skipped afterwards: it is still failed,
\* still to be processed, and the log has its "skipped" line
C35_Witness ==
    /\ tret = [op |-> "save_skipped", filename |-> FileA, raised |-> FALSE]
    /\ SavedHere("save_failed", FileA)
    /\ is_failed(FileA)
    /\ get_stats = [success |-> 0, failed |-> 1]
    /\ get_remaining_files(<<FileA, FileB>>) = <<FileA, FileB>>
    /\ progress_log[Len(progress_log)] = Line(FileA, "skipped", "duplicate")

(***************************************************************************)
(* Properties of response parsing                                          *)
(***************************************************************************)

\* the enumerations of the two categories
CategoryDomain == [LocationCategory |-> 1..4, EraCategory |-> 1..4]

\* C22: a result returned by either client carries no LocationCategory or
\* EraCategory outside its enumeration.
C22_CategoryDomain ==
    pret.kind = "result" =>
        \A k \in DOMAIN pret.category_info \cap DOMAIN CategoryDomain :
            pret.category_info[k] \in CategoryDomain[k]

\* C23: the Explanation of every returned result is the concatenation of
\* SceneExp, ColortoneExp, CompositionExp, ObjectExp1 and ObjectExp2, in
\* that order.
C23_ExplanationInvariant ==
    (pret.kind = "result" /\ "Explanation" \in DOMAIN pret.annotation_info) =>
        LET a == pret.annotation_info
        IN  a.Explanation = a.SceneExp \o a.ColortoneExp \o a.CompositionExp
                                \o a.ObjectExp1 \o a.ObjectExp2

\* the keys of the members written in a text
KeysIn(text) ==
    {JsonMember(text[i]).key : i \in {j \in 1..Len(text) : text[j] \in Members}}

\* C24: _parse_response returns a result only for a response that holds all
\* of "meta", "category_info" and "annotation_info".
C24_SectionsValidated ==
    (pclient = "lib" /\ pret.kind = "result") =>
        {"meta", "category_info", "annotation_info"} \subseteq KeysIn(ptext)

\* positions of the braces of a text, and what a JSON object looks like
Opens(text)  == {i \in 1..Len(text) : text[i] = "{"}
Closes(text) == {i \in 1..Len(text) : text[i] = "}"}
ValidObject(s) ==
    /\ Len(s) >= 2
    /\ Head(s) = "{"
    /\ s[Len(s)] = "}"
    /\ {s[i] : i \in 2..(Len(s) - 1)} \subseteq Members
\* a valid object with prose or a code fence before and behind it
Wrapped(text) ==
    \E pre \in {<<>>, <<"p">>, FenceJson}, post \in {<<>>, <<"p">>, Fence},
       n \in 2..Len(text) :
        /\ Len(text) = Len(pre) + n + Len(post)
        /\ text = pre \o SubSeq(text, Len(pre) + 1, Len(pre) + n) \o post
        /\ ValidObject(SubSeq(text, Len(pre) + 1, Len(pre) + n))

\* C25: _parse_response raises, and returns nothing, for a text without a
\* "{", without a "}", with its last "}" before its first "{", or whose
\* text from the first "{" to the last "}" is not a JSON object; and it
\* returns a result for a valid object with a code fence or prose before
\* and behind it.
C25_ParseFailure ==
    pclient = "lib" =>
        /\ ( \/ Opens(ptext) = {}
             \/ Closes(ptext) = {}
             \/ \A i \in Opens(ptext), j \in Closes(ptext) : j < i
             \/ \E i \in Opens(ptext), j \in Closes(ptext) :
                   /\ \A k \in Opens(ptext) : i <= k
                   /\ \A k \in Closes(ptext) : k <= j
                   /\ ~ValidObject(SubSeq(ptext, i, j)) )
              => pret.kind = "error"
        /\ Wrapped(ptext) => pret.kind = "result"

\* a valid object inside a code fence was parsed
C25_Witness ==
    /\ pclient = "lib"
    /\ pret.kind = "result"
    /\ ptext = FenceJson \o <<"{", "m", "c", "a", "}">> \o Fence

(***************************************************************************)
(* Properties of build_full_prompt                                         *)
(***************************************************************************)

\* C26: for a template that contains both placeholders, the built prompt
\* contains "<width> × <height>" and contains neither placeholder, however
\* often a placeholder occurs in the template.
C26_PromptBuilt ==
    ( /\ full_prompt.kind = "str"
      /\ Contains(user_prompt, MetaPlaceholder)
      /\ Contains(user_prompt, CatPlaceholder) ) =>
        /\ Contains(full_prompt.value,
                    Str(image_metadata.width) \o <<" × ">> \o Str(image_metadata.height))
        /\ ~Contains(full_prompt.value, MetaPlaceholder)
        /\ ~Contains(full_prompt.value, CatPlaceholder)

\* a prompt built from a template with the metadata placeholder twice, for
\* a 1920 x 1080 image
C26_Witness ==
    /\ full_prompt.kind = "str"
    /\ user_prompt = MetaPlaceholder \o <<"p">> \o MetaPlaceholder \o CatPlaceholder
    /\ Contains(full_prompt.value, <<"1", "9", "2", "0", " × ", "1", "0", "8", "0">>)

(***************************************************************************)
(* Properties of analyze_image: the blocked response                       *)
(***************************************************************************)

\* C27: when analyze_image fails on a response with no candidates whose
\* prompt feedback carries a block reason, the message of the raised error
\* contains that block reason (its number or its name).
C27_BlockReasonCited ==
    ( /\ pc = "failed"
      /\ response.kind = "response"
      /\ Len(response.candidates) = 0
      /\ response.block_reason # 0 ) =>
        /\ raised.kind = "error"
        /\ \/ Contains(raised.msg, block_reason_map(response.block_reason))
           \/ Contains(raised.msg, Str(response.block_reason))

(***************************************************************************)
(* Properties of list_files                                                *)
(***************************************************************************)

\* a component of the path starts with "."
HasHiddenComponent(path) ==
    \/ IsHidden(path)
    \/ \E i \in 1..(Len(path) - 1) : path[i] = "/" /\ path[i + 1] = "."

\* C28: list_files, recursive or not, returns no file whose name starts
\* with "." and no file below a directory whose name starts with ".".
C28_HiddenSkipped ==
    lret.kind = "list" =>
        \A i \in 1..Len(lret.value) : ~HasHiddenComponent(lret.value[i])

\* the lines of a node that a listing takes into account
VisibleItems(node) ==
    LET items == RemoteTree(ltree)[node].items
    IN  {j \in 1..Len(items) : items[j].parts >= 9 /\ ~IsHidden(items[j].name)}

\* the directories at depth 0 to max_depth - 1 below the root that can be
\* listed, each with the directory names that lead to it
RECURSIVE DirsBelow(_, _)
DirsBelow(node, depth) ==
    IF depth >= max_depth \/ ~RemoteTree(ltree)[node].readable THEN {}
    ELSE LET items == RemoteTree(ltree)[node].items
         IN  {[names |-> <<>>, node |-> node]}
             \cup UNION { { [names |-> <<items[j].name>> \o w.names, node |-> w.node] :
                              w \in DirsBelow(items[j].target, depth + 1) } :
                          j \in {k \in VisibleItems(node) : items[k].isdir} }

\* the files in these directories that pass the extension filter
FilesBelow ==
    UNION { { <<w.names, j>> :
                j \in {k \in VisibleItems(w.node) :
                         LET it == RemoteTree(ltree)[w.node].items[k]
                         IN  ~it.isdir /\ ExtensionOk(it.name, largs.extension)} } :
            w \in DirsBelow(1, 0) }

\* C29: a recursive list_files call ends on every remote tree, also on one
\* whose directories form a cycle; no directory at depth 10 or more is
\* entered, and the call returns one path for every file in a directory at
\* depth 0 to 9.
C29_BoundedRecursion ==
    /\ [](\A i \in 1..Len(lcwd) : lcwd[i].depth < max_depth)
    /\ []((lpc = "done" /\ connected /\ largs.recursive)
             => Len(lret.value) = Cardinality(FilesBelow))
    /\ <>(lpc = "done")

\* the call on the tree whose directory holds itself ended: ten directories
\* entered, the last at depth 9, and ten paths returned
C29_Witness ==
    /\ lpc = "done"
    /\ ltree = "cycle"
    /\ largs.recursive
    /\ Len(lcwd) = 10
    /\ lcwd[10].depth = 9
    /\ Len(lret.value) = 10

\* the remote paths of the files a recursive listing of RemoteDir reaches:
\* the root, the directory names that lead to the file, the file name
ActualPaths ==
    { RemoteDir \o <<"/">>
        \o Join(<<"/">>, q[1] \o <<RemoteTree(ltree)[q[3]].items[q[2]].name>>) :
      q \in UNION { { <<w.names, j, w.node>> :
                        j \in {k \in VisibleItems(w.node) :
                                 ~RemoteTree(ltree)[w.node].items[k].isdir} } :
                    w \in DirsBelow(1, 0) } }

\* C36: every relative path a recursive list_files(remote_dir) returns,
\* joined to remote_dir the way download_file joins it, is the remote path
\* of a listed file.
C36_ListedPathsResolve ==
    (lpc = "done" /\ connected /\ largs.recursive) =>
        \A i \in 1..Len(lret.value) :
            RemoteFilePath(largs.remote_dir, lret.value[i]) \in ActualPaths

(***************************************************************************)
(* Properties of the log directories                                       *)
(***************************************************************************)

\* C30: every entry of progress.jsonl and of error.log lies in the directory
\* named for the day of its own timestamp.
C30_DatePartition ==
    \A i \in 1..Len(dated) : dated[i].dir = dated[i].day

(***************************************************************************)
(* Properties of upload_image                                              *)
(***************************************************************************)

\* the upload_file calls of the log, in order
S3Uploads == SelectSeq(s3log, LAMBDA e : e.op = "upload_file")

\* the time.sleep calls of the log, in order
S3Sleeps == SelectSeq(s3log, LAMBDA e : e.op = "sleep")

\* C31: upload_image calls upload_file at most three times, sleeps 1 s and
\* then 2 s between the calls and nowhere else, returns the success record
\* after the first call that completes, raises the error of the third call
\* when three calls failed, and raises FileNotFoundError without any call
\* when the local file does not exist.
C31_UploadRetries ==
    /\ Len(S3Uploads) <= 3
    /\ \A i \in 1..Len(s3log) :
          /\ s3log[i].op = "sleep" <=> (i % 2 = 0)
          /\ s3log[i].op = "sleep" =>
                /\ s3log[i - 1].outcome.kind = "raise"
                /\ s3log[i].secs = (IF i = 2 THEN 1 ELSE 2)
          /\ (s3log[i].op = "upload_file" /\ s3log[i].outcome.kind = "ok") =>
                (i = Len(s3log) /\ s3pc = "done")
    /\ s3pc = "done" =>
          /\ (s3ret.kind = "dict") =>
                /\ s3ret.success
                /\ s3log # <<>>
                /\ s3log[Len(s3log)].outcome.kind = "ok"
          /\ (s3ret.kind = "error" /\ s3ret.type # "FileNotFoundError") =>
                /\ Len(S3Uploads) = 3
                /\ \A i \in 1..3 : S3Uploads[i].outcome.kind = "raise"
                /\ s3ret.type = S3Uploads[3].outcome.type
                /\ s3ret.msg = S3Uploads[3].outcome.msg
          /\ (s3ret.kind = "error" /\ s3ret.type = "FileNotFoundError") => s3log = <<>>
          /\ s3ret.kind # "None"
    /\ (s3pc # "idle" /\ s3ret.kind = "error" /\ s3ret.type = "FileNotFoundError")
          <=> (s3pc = "done" /\ s3log = <<>>)

\* three calls failed, with the sleeps of 1 s and 2 s, and the third error
\* was raised
C31_Witness ==
    /\ s3pc = "done"
    /\ s3ret.kind = "error"
    /\ Len(S3Uploads) = 3
    /\ Len(S3Sleeps) = 2
    /\ S3Sleeps[1].secs = 1
    /\ S3Sleeps[2].secs = 2
    /\ S3Uploads[3].outcome.msg # S3Uploads[1].outcome.msg

(***************************************************************************)
(* Properties of the FTP sessions                                          *)
(***************************************************************************)

\* C37: the client holds at most one unclosed session: a session that
\* download_file replaces after a connection-class error was closed before
\* the new one was opened.
C37_OneSession == Unclosed <= 1

=============================================================================
